---- MODULE Spec2Model ----
(***************************************************************************)
(* Model of the IDL-driven edge-case generator and executor of             *)
(* anchor-testing-suite (src/bin/pda_scanner/{types,specs,cases,runner,     *)
(* report}.rs; src/bin/pda-scanner.rs holds the same functions in one file),*)
(* and of the sample program test_vault (src/lib.rs).                      *)
(*                                                                         *)
(* Strings model Rust Strings, addresses and seed byte strings; \o is the  *)
(* concatenation format!/extend perform.  Payloads are sequences of bytes. *)
(* A serde_json::Value type descriptor is a record whose only field names  *)
(* its JSON shape:                                                         *)
(*    [str |-> s]            the JSON string s                             *)
(*    [array |-> <<..>>]     the object {"array": [..]}; an array length   *)
(*                           that is not a JSON u64 is modelled by -1      *)
(*    [defined |-> s]        any object without an "array" key             *)
(*    [null |-> TRUE]        a value that is neither a string nor an object*)
(***************************************************************************)
EXTENDS Integers, Sequences, FiniteSets, TLC

VARIABLES
    programs,    \* run_tests: Vec<ProgramSpec> returned by load_program_specs
    oracle,      \* the behaviour of the LiteSVM sandbox during this run
    pc,          \* run_tests / execute_edge_cases: position in the run
    generated,   \* run_tests: Vec<EdgeCase>
    program_bytes, \* execute_edge_cases: HashMap from program address to bytecode
    cursor,      \* execute_edge_cases: index of the next case of `for case in cases`
    executed,    \* execute_edge_cases: out, Vec<ExecutedCase>
    submitted,   \* per executed case: the bytecode, payer and transaction of its run_case
    nextKey,     \* number of Keypair::new() calls made so far
    env,         \* run_tests: the project directory and the smoke test's outcome
    checks,      \* run_tests: Vec<CheckResult>
    smoke,       \* run_tests: Option<SmokeResult>
    report,      \* what this run wrote to target/anchor-suite/report.json, if anything
    result,      \* what run_tests returned, once it has returned
    enc,         \* one call of the payload encoder (SpecEncode)
    rc,          \* one call of run_case, statement by statement (SpecCase)
    ld,          \* one call of a function of the IDL loader (SpecLoad)
    ledger       \* the vault account of the sample program and its callers (SpecVault)

vars == <<programs, oracle, pc, generated, program_bytes, cursor, executed, submitted,
          nextKey, env, checks, smoke, report, result, enc, rc, ld, ledger>>

harnessVars == <<env, checks, smoke, report, result>>

runVars == <<programs, oracle, pc, generated, program_bytes, cursor, executed, submitted,
             nextKey, harnessVars>>

(***************************************************************************)
(* Bounds of the model.                                                    *)
(***************************************************************************)
MaxDepth == 2       \* nesting depth of array type descriptors
MaxArrayLen == 2    \* largest declared array length
MaxArgs == 2        \* arguments per instruction in SpecEncode
MaxPrograms == 2    \* ProgramSpecs per run
MaxIx == 2          \* instructions per run, over all ProgramSpecs
MaxAccounts == 2    \* accounts per instruction in SpecCase
MaxFiles == 2       \* description files of target/idl in SpecLoad

(***************************************************************************)
(* Program constants.                                                      *)
(***************************************************************************)
DiscriminatorLen == 8

Range(s) == {s[i] : i \in DOMAIN s}

RECURSIVE SeqsUpTo(_, _)
SeqsUpTo(S, n) ==
    IF n = 0 THEN {<<>>}
    ELSE LET shorter == SeqsUpTo(S, n - 1)
         IN  shorter \cup {Append(s, x) : s \in {t \in shorter : Len(t) = n - 1}, x \in S}

Zeros(n) == [i \in 1..n |-> 0]

(***************************************************************************)
(* Payload Encoder (cases.rs, encode_arg_zero / encode_instruction_data).  *)
(***************************************************************************)
Ok(v) == [ok |-> TRUE, val |-> v]
Err(e) == [ok |-> FALSE, err |-> e]

\* a width table with one entry off: "u128" | "i128" => vec![0; 8]
PrimitiveZero_NarrowU128(s) ==
    CASE s \in {"bool", "u8", "i8"} -> Ok(Zeros(1))
      [] s \in {"u16", "i16"} -> Ok(Zeros(2))
      [] s \in {"u32", "i32"} -> Ok(Zeros(4))
      [] s \in {"u64", "i64", "u128", "i128"} -> Ok(Zeros(8))
      [] s = "pubkey" -> Ok(Zeros(32))
      [] OTHER -> Err("primitive not supported")

\* the match on a JSON string, cases.rs:238-247
PrimitiveZero(s) ==
    CASE s = "bool" -> Ok(Zeros(1))
      [] s \in {"u8", "i8"} -> Ok(Zeros(1))
      [] s \in {"u16", "i16"} -> Ok(Zeros(2))
      [] s \in {"u32", "i32"} -> Ok(Zeros(4))
      [] s \in {"u64", "i64"} -> Ok(Zeros(8))
      [] s \in {"u128", "i128"} -> Ok(Zeros(16))
      [] s = "pubkey" -> Ok(Zeros(32))
      [] OTHER -> Err("primitive not supported")

\* inner_bytes.into_iter().cycle().take(len).collect(), cases.rs:258
CycleTake(bytes, len) ==
    IF bytes = <<>> THEN <<>>
    ELSE [i \in 1..len |-> bytes[((i - 1) % Len(bytes)) + 1]]

RECURSIVE encode_arg_zero(_)
encode_arg_zero(ty) ==
    IF "str" \in DOMAIN ty THEN PrimitiveZero(ty.str)
    ELSE IF "array" \in DOMAIN ty THEN
        IF Len(ty.array) # 2 THEN Err("invalid array type")
        ELSE LET inner_bytes == encode_arg_zero(ty.array[1])
             IN  IF ~inner_bytes.ok THEN inner_bytes
                 ELSE IF ty.array[2] < 0 THEN Err("invalid array len")
                 ELSE Ok(CycleTake(inner_bytes.val, ty.array[2]))
    ELSE Err("complex arg type not supported")

RECURSIVE EncodeArgsFrom(_, _, _)
EncodeArgsFrom(args, i, out) ==
    IF i > Len(args) THEN Ok(out)
    ELSE LET bytes == encode_arg_zero(args[i].ty)
         IN  IF ~bytes.ok
             THEN Err("arg " \o args[i].name \o " type not supported: " \o bytes.err)
             ELSE EncodeArgsFrom(args, i + 1, out \o bytes.val)

encode_instruction_data(ix) == EncodeArgsFrom(ix.args, 1, ix.discriminator)

(***************************************************************************)
(* Mutation Generator (cases.rs, generate_edge_cases).                     *)
(***************************************************************************)
MutNone == [kind |-> "None"]
MutWrongProgramId == [kind |-> "WrongProgramId"]
MutTruncateData == [kind |-> "TruncateData"]
MutWrongPda(account) == [kind |-> "WrongPda", account |-> account]

EdgeCase(p, ix, suffix, mutation, expectation) ==
    [id |-> p.idl_file \o "_" \o ix.name \o "_" \o suffix,
     idl_file |-> p.idl_file,
     program_id |-> p.program_id,
     instruction |-> ix,
     mutation |-> mutation,
     expectation |-> expectation]

\* a generator that forgets the `!acc.pda_seeds.is_empty()` test
RECURSIVE WrongPdaCases_AllAccounts(_, _, _)
WrongPdaCases_AllAccounts(p, ix, i) ==
    IF i > Len(ix.accounts) THEN <<>>
    ELSE <<EdgeCase(p, ix, "wrong_pda_" \o ix.accounts[i].name,
                    MutWrongPda(ix.accounts[i].name), "MustFail")>>
         \o WrongPdaCases_AllAccounts(p, ix, i + 1)

\* for acc in &ix.accounts { if !acc.pda_seeds.is_empty() { cases.push(..) } }
RECURSIVE WrongPdaCases(_, _, _)
WrongPdaCases(p, ix, i) ==
    IF i > Len(ix.accounts) THEN <<>>
    ELSE LET acc == ix.accounts[i]
         IN  (IF acc.pda_seeds # <<>>
              THEN <<EdgeCase(p, ix, "wrong_pda_" \o acc.name, MutWrongPda(acc.name), "MustFail")>>
              ELSE <<>>)
             \o WrongPdaCases(p, ix, i + 1)

\* a generator that pushes the truncation case before the wrong-program case
InstructionCases_Reordered(p, ix) ==
    <<EdgeCase(p, ix, "base", MutNone, "Any"),
      EdgeCase(p, ix, "truncate_data", MutTruncateData, "MustFail"),
      EdgeCase(p, ix, "wrong_program", MutWrongProgramId, "MustFail")>>
    \o WrongPdaCases(p, ix, 1)

\* the body of `for ix in &p.instructions`
InstructionCases(p, ix) ==
    <<EdgeCase(p, ix, "base", MutNone, "Any"),
      EdgeCase(p, ix, "wrong_program", MutWrongProgramId, "MustFail"),
      EdgeCase(p, ix, "truncate_data", MutTruncateData, "MustFail")>>
    \o WrongPdaCases(p, ix, 1)

RECURSIVE ProgramCases(_, _)
ProgramCases(p, j) ==
    IF j > Len(p.instructions) THEN <<>>
    ELSE InstructionCases(p, p.instructions[j]) \o ProgramCases(p, j + 1)

RECURSIVE CasesFrom(_, _)
CasesFrom(progs, k) ==
    IF k > Len(progs) THEN <<>>
    ELSE ProgramCases(progs[k], 1) \o CasesFrom(progs, k + 1)

generate_edge_cases(progs) == CasesFrom(progs, 1)

(***************************************************************************)
(* Account Resolver (cases.rs, build_accounts).  Keypair::new() yields a   *)
(* key pair nobody has seen before: the n-th call of a run yields the key  *)
(* pair whose address is "key<n>".  HashMaps are functions on the set of   *)
(* their keys.                                                             *)
(***************************************************************************)
\* a generator that hands out one key pair over and over
KeypairNew_Constant(n) == [pubkey |-> "key0"]

KeypairNew(n) == [pubkey |-> "key" \o ToString(n)]

Insert(m, k, v) == [x \in (DOMAIN m) \cup {k} |-> IF x = k THEN v ELSE m[x]]
Remove(m, k) == [x \in (DOMAIN m) \ {k} |-> m[x]]

\* Pubkey::find_program_address hashes the seeds one after the other, then the
\* program address: a function of the concatenated seed bytes and the program
RECURSIVE Concat(_)
Concat(seeds) == IF seeds = <<>> THEN "" ELSE Head(seeds) \o Concat(Tail(seeds))

find_program_address(seeds, program_id) == "pda(" \o Concat(seeds) \o ")@" \o program_id

\* pass 1, cases.rs:150-162; st = [pubkey_by_name, signer_by_name, next]
DirectStep(acc, payer, st) ==
    LET kp == KeypairNew(st.next)
    IN  IF acc.signer
        THEN IF DOMAIN st.pubkey_by_name = {}
             THEN [st EXCEPT !.pubkey_by_name = Insert(@, acc.name, payer.pubkey)]
             ELSE [pubkey_by_name |-> Insert(st.pubkey_by_name, acc.name, kp.pubkey),
                   signer_by_name |-> Insert(st.signer_by_name, acc.name, kp),
                   next |-> st.next + 1]
        ELSE [st EXCEPT !.pubkey_by_name = Insert(@, acc.name, kp.pubkey),
                        !.next = @ + 1]

RECURSIVE DirectPass(_, _, _, _)
DirectPass(accounts, i, payer, st) ==
    IF i > Len(accounts) THEN st
    ELSE DirectPass(accounts, i + 1, payer, DirectStep(accounts[i], payer, st))

\* a seed loop that collects the seeds last to first
RECURSIVE ResolveSeeds_Reversed(_, _, _, _)
ResolveSeeds_Reversed(pda_seeds, i, pubkey_by_name, seeds) ==
    IF i > Len(pda_seeds) THEN [resolvable |-> TRUE, seeds |-> seeds]
    ELSE LET seed == pda_seeds[i]
         IN  IF seed.kind = "const"
             THEN ResolveSeeds_Reversed(pda_seeds, i + 1, pubkey_by_name,
                                        <<seed.bytes>> \o seeds)
             ELSE IF seed.path \in DOMAIN pubkey_by_name
             THEN ResolveSeeds_Reversed(pda_seeds, i + 1, pubkey_by_name,
                                        <<pubkey_by_name[seed.path]>> \o seeds)
             ELSE [resolvable |-> FALSE, seeds |-> seeds]

\* the loop over acc.pda_seeds, cases.rs:169-182
RECURSIVE ResolveSeeds(_, _, _, _)
ResolveSeeds(pda_seeds, i, pubkey_by_name, seeds) ==
    IF i > Len(pda_seeds) THEN [resolvable |-> TRUE, seeds |-> seeds]
    ELSE LET seed == pda_seeds[i]
         IN  IF seed.kind = "const"
             THEN ResolveSeeds(pda_seeds, i + 1, pubkey_by_name, Append(seeds, seed.bytes))
             ELSE IF seed.path \in DOMAIN pubkey_by_name
             THEN ResolveSeeds(pda_seeds, i + 1, pubkey_by_name,
                               Append(seeds, pubkey_by_name[seed.path]))
             ELSE [resolvable |-> FALSE, seeds |-> seeds]

\* pass 2, cases.rs:164-194
RECURSIVE DerivePass(_, _, _, _)
DerivePass(accounts, i, program_id, pubkey_by_name) ==
    IF i > Len(accounts) THEN pubkey_by_name
    ELSE LET acc == accounts[i]
             r == ResolveSeeds(acc.pda_seeds, 1, pubkey_by_name, <<>>)
         IN  IF acc.pda_seeds = <<>> \/ ~r.resolvable
             THEN DerivePass(accounts, i + 1, program_id, pubkey_by_name)
             ELSE DerivePass(accounts, i + 1, program_id,
                      Insert(pubkey_by_name, acc.name,
                             find_program_address(r.seeds, program_id)))

\* a WrongPda substitution that is never applied
ApplyWrongPda_Skipped(mutation, st) == st

\* cases.rs:196-200; st = [pubkey_by_name, signer_by_name, next]
ApplyWrongPda(mutation, st) ==
    IF mutation.kind = "WrongPda" /\ mutation.account \in DOMAIN st.pubkey_by_name
    THEN [st EXCEPT !.pubkey_by_name = Insert(@, mutation.account, KeypairNew(st.next).pubkey),
                    !.next = @ + 1]
    ELSE st

\* AccountMeta::new(key, signer) / AccountMeta::new_readonly(key, signer)
\* an account reference that is writable whatever the AccountSpec says
AccountMeta_AlwaysWritable(key, is_signer, is_writable) ==
    [pubkey |-> key, is_signer |-> is_signer, is_writable |-> TRUE]

\* AccountMeta::new(key, signer) / AccountMeta::new_readonly(key, signer)
AccountMeta(key, is_signer, is_writable) ==
    [pubkey |-> key, is_signer |-> is_signer, is_writable |-> is_writable]

\* an output loop that removes the collected key pair without pushing it
EmitStep_DropsSigner(acc, st) ==
    LET known == acc.name \in DOMAIN st.pubkey_by_name
        key == IF known THEN st.pubkey_by_name[acc.name] ELSE KeypairNew(st.next).pubkey
    IN  [pubkey_by_name |-> st.pubkey_by_name,
         signer_by_name |-> Remove(st.signer_by_name, acc.name),
         next |-> IF known THEN st.next ELSE st.next + 1,
         metas |-> Append(st.metas, AccountMeta(key, acc.signer, acc.writable)),
         extra_signers |-> st.extra_signers]

\* the output loop, cases.rs:205-221;
\* st = [pubkey_by_name, signer_by_name, next, metas, extra_signers]
EmitStep(acc, st) ==
    LET known == acc.name \in DOMAIN st.pubkey_by_name
        key == IF known THEN st.pubkey_by_name[acc.name] ELSE KeypairNew(st.next).pubkey
        collected == acc.name \in DOMAIN st.signer_by_name
    IN  [pubkey_by_name |-> st.pubkey_by_name,
         signer_by_name |-> IF collected THEN Remove(st.signer_by_name, acc.name)
                            ELSE st.signer_by_name,
         next |-> IF known THEN st.next ELSE st.next + 1,
         metas |-> Append(st.metas, AccountMeta(key, acc.signer, acc.writable)),
         extra_signers |-> IF collected
                           THEN Append(st.extra_signers, st.signer_by_name[acc.name])
                           ELSE st.extra_signers]

RECURSIVE EmitPass(_, _, _)
EmitPass(accounts, i, st) ==
    IF i > Len(accounts) THEN st
    ELSE EmitPass(accounts, i + 1, EmitStep(accounts[i], st))

EmitStart(st) ==
    [pubkey_by_name |-> st.pubkey_by_name, signer_by_name |-> st.signer_by_name,
     next |-> st.next, metas |-> <<>>, extra_signers |-> <<>>]

\* build_accounts(case, payer), with `next` Keypair::new() calls made before it;
\* it has no failing path: the result is always Ok((metas, extra_signers))
build_accounts(case, payer, next) ==
    LET accounts == case.instruction.accounts
        direct == DirectPass(accounts, 1, payer,
                      [pubkey_by_name |-> <<>>, signer_by_name |-> <<>>, next |-> next])
        derived == [direct EXCEPT !.pubkey_by_name =
                       DerivePass(accounts, 1, case.program_id, @)]
        mutated == ApplyWrongPda(case.mutation, derived)
        out == EmitPass(accounts, 1, EmitStart(mutated))
    IN  [metas |-> out.metas, extra_signers |-> out.extra_signers, next |-> out.next]

(***************************************************************************)
(* Case Executor (cases.rs, run_case / send_ix).  `sandbox` is what the    *)
(* LiteSVM instance of this case does: [setup, accept], setup one of "ok", *)
(* "add_program" (add_program fails), "airdrop" (airdrop fails); accept    *)
(* tells whether send_transaction returns Ok.                              *)
(***************************************************************************)
\* a truncation guarded by `data.is_empty()` instead of `!data.is_empty()`
TruncateData_OnlyWhenEmpty(mutation, data) ==
    IF mutation.kind = "TruncateData" /\ data = <<>>
    THEN SubSeq(data, 1, Len(data) - 1)
    ELSE data

\* if matches!(case.mutation, Mutation::TruncateData) && !data.is_empty() { data.pop(); }
TruncateData(mutation, data) ==
    IF mutation.kind = "TruncateData" /\ data # <<>>
    THEN SubSeq(data, 1, Len(data) - 1)
    ELSE data

\* a routing that substitutes the program address whatever the mutation is
RoutedProgram_ForAnyMutation(case, next) ==
    [program_id |-> KeypairNew(next).pubkey, next |-> next + 1]

\* a routing that never substitutes the program address
RoutedProgram_Registered(case, next) == [program_id |-> case.program_id, next |-> next]

\* let program_id = match case.mutation { WrongProgramId => fresh, _ => case.program_id }
RoutedProgram(case, next) ==
    IF case.mutation.kind = "WrongProgramId"
    THEN [program_id |-> KeypairNew(next).pubkey, next |-> next + 1]
    ELSE [program_id |-> case.program_id, next |-> next]

Instruction(program_id, accounts, data) ==
    [program_id |-> program_id, accounts |-> accounts, data |-> data]

\* the keys Message::new_with_blockhash(&[ix], Some(&payer.pubkey()), ..) marks as
\* signers: the fee payer and every account reference flagged is_signer
RequiredSigners(payer, ix) ==
    {payer.pubkey} \cup {ix.accounts[i].pubkey : i \in {j \in DOMAIN ix.accounts : ix.accounts[j].is_signer}}

\* send_ix: signers = payer, then every extra signer.  Transaction::new panics
\* when signing fails (a signer whose key the message does not require, or a
\* required key nobody signs for); otherwise the sandbox decides.
send_ix(sandbox, payer, extra_signers, ix) ==
    LET signers == <<payer>> \o extra_signers
        tx == [instruction |-> ix, fee_payer |-> payer.pubkey, signers |-> signers]
    IN  IF {signers[i].pubkey : i \in DOMAIN signers} # RequiredSigners(payer, ix)
        THEN [status |-> "panic", error |-> "Transaction::sign failed", tx |-> <<>>]
        ELSE IF sandbox.accept
        THEN [status |-> "ok", error |-> "", tx |-> <<tx>>]
        ELSE [status |-> "err", error |-> "transaction failed", tx |-> <<tx>>]

\* run_case, with `next` Keypair::new() calls made before it.  `payer` is the
\* keypair the call created and funded in its own LiteSVM::new() instance
\* (None when add_program failed before it).
run_case(sandbox, case, next) ==
    IF sandbox.setup = "add_program"
    THEN [status |-> "err", error |-> "add_program failed", tx |-> <<>>, next |-> next,
          payer |-> <<>>]
    ELSE LET payer == KeypairNew(next)
         IN  IF sandbox.setup = "airdrop"
             THEN [status |-> "err", error |-> "airdrop failed", tx |-> <<>>,
                   next |-> next + 1, payer |-> <<payer.pubkey>>]
             ELSE LET built == build_accounts(case, payer, next + 1)
                      encoded == encode_instruction_data(case.instruction)
                  IN  IF ~encoded.ok
                      THEN [status |-> "err", error |-> encoded.err, tx |-> <<>>,
                            next |-> built.next, payer |-> <<payer.pubkey>>]
                      ELSE LET data == TruncateData(case.mutation, encoded.val)
                               routed == RoutedProgram(case, built.next)
                               ix == Instruction(routed.program_id, built.metas, data)
                               sent == send_ix(sandbox, payer, built.extra_signers, ix)
                           IN  [status |-> sent.status, error |-> sent.error,
                                tx |-> sent.tx, next |-> routed.next,
                                payer |-> <<payer.pubkey>>]

(***************************************************************************)
(* Judge (cases.rs, execute_edge_cases).  Option values are sequences of   *)
(* at most one element: <<>> is None, <<v>> is Some(v).                    *)
(***************************************************************************)
MutationLabel(mutation) ==
    CASE mutation.kind = "None" -> "none"
      [] mutation.kind = "WrongProgramId" -> "wrong_program_id"
      [] mutation.kind = "TruncateData" -> "truncate_data"
      [] mutation.kind = "WrongPda" -> "wrong_pda:" \o mutation.account

\* a judge that wants the baseline to succeed
Judge_AnyMustSucceed(expectation, actual_success) ==
    IF expectation = "Any"
    THEN [expected_success |-> <<>>, passed |-> actual_success]
    ELSE [expected_success |-> <<FALSE>>, passed |-> ~actual_success]

\* let (expected_success, passed) = match case.expectation { .. }
Judge(expectation, actual_success) ==
    IF expectation = "Any"
    THEN [expected_success |-> <<>>, passed |-> TRUE]
    ELSE [expected_success |-> <<FALSE>>, passed |-> ~actual_success]

\* a record that leaves the diagnostic of the run behind
ExecutedCase_ErrorDropped(case, run) ==
    LET actual_success == run.status = "ok"
        verdict == Judge(case.expectation, actual_success)
    IN  [id |-> case.id,
         idl_file |-> case.idl_file,
         instruction |-> case.instruction.name,
         mutation |-> MutationLabel(case.mutation),
         expected_success |-> verdict.expected_success,
         actual_success |-> actual_success,
         passed |-> verdict.passed,
         error |-> <<>>]

\* out.push(ExecutedCase { .. }), cases.rs:83-107
ExecutedCase(case, run) ==
    LET actual_success == run.status = "ok"
        verdict == Judge(case.expectation, actual_success)
    IN  [id |-> case.id,
         idl_file |-> case.idl_file,
         instruction |-> case.instruction.name,
         mutation |-> MutationLabel(case.mutation),
         expected_success |-> verdict.expected_success,
         actual_success |-> actual_success,
         passed |-> verdict.passed,
         error |-> IF actual_success THEN <<>> ELSE <<run.error>>]

\* for p in programs { program_bytes.insert(p.program_id, fs::read(&p.deploy_so)?) }
RECURSIVE ReadPrograms(_, _, _)
ReadPrograms(progs, k, map) ==
    IF k > Len(progs) THEN map
    ELSE ReadPrograms(progs, k + 1, Insert(map, progs[k].program_id, progs[k].deploy_so))

(***************************************************************************)
(* Inputs of the encoder: type descriptors as they arrive from the IDL.    *)
(***************************************************************************)
SupportedTags ==
    {"bool", "u8", "i8", "u16", "i16", "u32", "i32", "u64", "i64", "u128", "i128", "pubkey"}

StringTags == SupportedTags \cup {"string"}

RECURSIVE TypeDescs(_)
TypeDescs(d) ==
    IF d = 0
    THEN {[str |-> s] : s \in StringTags} \cup {[defined |-> "Config"], [null |-> TRUE]}
    ELSE LET inner == TypeDescs(d - 1)
         IN  inner
             \cup {[array |-> <<t, n>>] : t \in inner, n \in -1..MaxArrayLen}
             \cup {[array |-> <<t>>] : t \in inner}

Discriminators == {<<1, 2, 3, 4, 5, 6, 7, 8>>, <<242, 35, 198, 137, 82, 225, 242, 182>>}

ArgName(i) == "arg" \o ToString(i)

\* argument lists whose i-th argument is named ArgName(i)
ArgLists(types, n) ==
    {[i \in 1..Len(tys) |-> [name |-> ArgName(i), ty |-> tys[i]]] : tys \in SeqsUpTo(types, n)}

EncArgTypes == TypeDescs(0) \cup {[array |-> <<[str |-> "u8"], MaxArrayLen>>]}

EncInstructions ==
    {[name |-> "ix", discriminator |-> d, accounts |-> <<>>, args |-> a] :
        d \in Discriminators, a \in ArgLists(EncArgTypes, MaxArgs)}

IdleEnc == [pc |-> "idle"]
IdleRc == [pc |-> "idle"]
IdleLd == [pc |-> "idle"]
IdleLedger == [pc |-> "idle"]
IdleRun ==
    /\ programs = <<>> /\ oracle = "none" /\ pc = "idle" /\ generated = <<>>
    /\ program_bytes = <<>> /\ cursor = 0 /\ executed = <<>> /\ submitted = <<>>
    /\ nextKey = 0
    /\ env = "none" /\ checks = <<>> /\ smoke = <<>> /\ report = <<>> /\ result = <<>>

(***************************************************************************)
(* Inputs of a run: the ProgramSpecs load_program_specs returned.  Every   *)
(* instruction has an 8-byte discriminator and every ProgramSpec at least  *)
(* one instruction (specs.rs:104, specs.rs:56).                            *)
(***************************************************************************)
Const(bytes) == [kind |-> "const", bytes |-> bytes]
AccountSeed(path) == [kind |-> "account", path |-> path]

AccountSpec(name, signer, writable, pda_seeds) ==
    [name |-> name, signer |-> signer, writable |-> writable, pda_seeds |-> pda_seeds]

ArgSpec(name, ty) == [name |-> name, ty |-> ty]

InstructionSpec(name, discriminator, accounts, args) ==
    [name |-> name, discriminator |-> discriminator, accounts |-> accounts, args |-> args]

(***************************************************************************)
(* IDL Loader (specs.rs).  A JSON member that may be missing or of another *)
(* JSON type is an Option: <<>> when `as_str()` / `as_bool()` / `as_array()`*)
(* would return None, <<v>> otherwise.  An array element is [u64 |-> n]    *)
(* when `as_u64()` is Some(n), [other |-> text] when it is None (a string, *)
(* a fraction, a negative number).  A byte of a constant seed is written   *)
(* as the character it encodes, [byte |-> c].  A file name is its stem, a  *)
(* sequence of characters, and its extension, an Option.                   *)
(***************************************************************************)
UnwrapOr(opt, default) == IF opt = <<>> THEN default ELSE opt[1]

\* the characters of a name, joined
RECURSIVE Str(_)
Str(chars) == IF chars = <<>> THEN "" ELSE Head(chars) \o Str(Tail(chars))

\* Path::file_name
FileName(f) == IF f.ext = <<>> THEN Str(f.stem) ELSE Str(f.stem) \o "." \o f.ext[1]

\* Path::join
Join(dir, name) == dir \o "/" \o name

\* .filter_map(|v| v.as_u64().map(|n| n as u8)).collect::<Vec<_>>()
AsBytes(array) ==
    LET kept == SelectSeq(array, LAMBDA v : "u64" \in DOMAIN v)
    IN  [i \in DOMAIN kept |-> kept[i].u64 % 256]

\* the same collection for the bytes of a constant seed
SeedBytes(array) ==
    LET kept == SelectSeq(array, LAMBDA v : "byte" \in DOMAIN v)
    IN  Str([i \in DOMAIN kept |-> kept[i].byte])

\* the match on s["kind"], specs.rs:118-134: the seeds this entry contributes
ParseSeed(s) ==
    LET kind == UnwrapOr(s.kind, "")
    IN  IF kind = "const"
        THEN IF s.value # <<>> THEN <<Const(SeedBytes(s.value[1]))>> ELSE <<>>
        ELSE IF kind = "account"
        THEN IF s.path # <<>> THEN <<AccountSeed(s.path[1])>> ELSE <<>>
        ELSE <<>>

RECURSIVE ParseSeeds(_, _)
ParseSeeds(seeds, i) ==
    IF i > Len(seeds) THEN <<>> ELSE ParseSeed(seeds[i]) \o ParseSeeds(seeds, i + 1)

\* the body of `for a in accs`, specs.rs:110-143
ParseAccount(a) ==
    AccountSpec(UnwrapOr(a.name, "unknown"), UnwrapOr(a.signer, FALSE),
                UnwrapOr(a.writable, FALSE),
                IF a.seeds # <<>> THEN ParseSeeds(a.seeds[1], 1) ELSE <<>>)

\* the body of `for arg in a`, specs.rs:149-152
ParseArg(arg) == ArgSpec(UnwrapOr(arg.name, "arg"), arg.type)

\* parse_instruction: None is <<>>, Some(spec) is <<spec>>
parse_instruction(ix) ==
    IF ix.name = <<>> THEN <<>>
    ELSE IF ix.discriminator = <<>> THEN <<>>
    ELSE LET discriminator == AsBytes(ix.discriminator[1])
         IN  IF Len(discriminator) # 8 THEN <<>>
             ELSE <<InstructionSpec(ix.name[1], discriminator,
                        IF ix.accounts # <<>>
                        THEN [i \in DOMAIN ix.accounts[1] |-> ParseAccount(ix.accounts[1][i])]
                        ELSE <<>>,
                        IF ix.args # <<>>
                        THEN [i \in DOMAIN ix.args[1] |-> ParseArg(ix.args[1][i])]
                        ELSE <<>>)>>

\* let norm = |s: &str| s.replace('-', "_");
norm(chars) == [i \in DOMAIN chars |-> IF chars[i] = "-" THEN "_" ELSE chars[i]]

\* a resolver that, when no name matches, takes the first artifact of the listing
resolve_so_file_FirstOfMany(deploy_dir, files, sos, stem, meta_name) ==
    LET candidates == <<Str(norm(stem)) \o ".so", Str(norm(meta_name)) \o ".so">>
    IN  IF candidates[1] \in files THEN Ok(Join(deploy_dir, candidates[1]))
        ELSE IF candidates[2] \in files THEN Ok(Join(deploy_dir, candidates[2]))
        ELSE IF Len(sos) >= 1 THEN Ok(sos[1])
        ELSE Err("Could not resolve matching .so in " \o deploy_dir \o " for idl stem="
                 \o Str(stem) \o " meta_name=" \o Str(meta_name))

\* resolve_so_file; `files` are the names for which deploy_dir.join(name).exists()
resolve_so_file(deploy_dir, files, sos, stem, meta_name) ==
    LET candidates == <<Str(norm(stem)) \o ".so", Str(norm(meta_name)) \o ".so">>
    IN  IF candidates[1] \in files THEN Ok(Join(deploy_dir, candidates[1]))
        ELSE IF candidates[2] \in files THEN Ok(Join(deploy_dir, candidates[2]))
        ELSE IF Len(sos) = 1 THEN Ok(sos[1])
        ELSE Err("Could not resolve matching .so in " \o deploy_dir \o " for idl stem="
                 \o Str(stem) \o " meta_name=" \o Str(meta_name))

\* the strings `program_id_str.parse::<Address>()` accepts
Base58Addresses == {"Prog1", "Prog2", "Prog3"}

\* for ix in ixs { if let Some(spec) = parse_instruction(ix) { instructions.push(spec) } }
RECURSIVE ParseInstructions(_, _)
ParseInstructions(ixs, i) ==
    IF i > Len(ixs) THEN <<>>
    ELSE parse_instruction(ixs[i]) \o ParseInstructions(ixs, i + 1)

\* the loop `for entry in fs::read_dir(idl_dir)?`, specs.rs:15-64, from entry i on
RECURSIVE LoadFrom(_, _, _, _, _, _)
LoadFrom(entries, i, deploy_dir, files, sos, progs) ==
    IF i > Len(entries) THEN Ok(progs)
    ELSE LET f == entries[i]
             path == Join("target/idl", FileName(f))
             next == LoadFrom(entries, i + 1, deploy_dir, files, sos, progs)
         IN  IF f.ext # <<"json">> THEN next
             ELSE IF f.content.kind = "unreadable" THEN Err("failed to read " \o path)
             ELSE IF f.content.kind = "invalid" THEN Err("Invalid JSON in " \o path)
             ELSE LET idl == f.content.idl
                      program_id_str ==
                          IF idl.address # <<>> THEN idl.address ELSE idl.metadata_address
                  IN  IF program_id_str = <<>> THEN next
                      ELSE IF program_id_str[1] \notin Base58Addresses THEN next
                      ELSE LET deploy_so == resolve_so_file(deploy_dir, files, sos, f.stem,
                                                UnwrapOr(idl.metadata_name, <<>>))
                               instructions ==
                                   IF idl.instructions # <<>>
                                   THEN ParseInstructions(idl.instructions[1], 1)
                                   ELSE <<>>
                           IN  IF ~deploy_so.ok THEN deploy_so
                               ELSE IF instructions # <<>>
                               THEN LoadFrom(entries, i + 1, deploy_dir, files, sos,
                                        Append(progs,
                                               [idl_file |-> FileName(f),
                                                program_id |-> program_id_str[1],
                                                deploy_so |-> deploy_so.val,
                                                instructions |-> instructions]))
                               ELSE next

\* load_program_specs(idl_dir, deploy_dir); a directory is [readable, entries],
\* entries in the order fs::read_dir yields them
load_program_specs(idl_dir, deploy_dir) ==
    IF ~deploy_dir.readable THEN Err("failed to list target/deploy")
    ELSE IF ~idl_dir.readable THEN Err("failed to list target/idl")
    ELSE LET so_files == SelectSeq(deploy_dir.entries, LAMBDA f : f.ext = <<"so">>)
             sos == [i \in DOMAIN so_files |-> Join("target/deploy", FileName(so_files[i]))]
             files == {FileName(deploy_dir.entries[i]) : i \in DOMAIN deploy_dir.entries}
         IN  LoadFrom(idl_dir.entries, 1, "target/deploy", files, sos, <<>>)

Disc1 == <<1, 2, 3, 4, 5, 6, 7, 8>>
Disc2 == <<242, 35, 198, 137, 82, 225, 242, 182>>

\* the `deposit` scenario: a derived vault declared before the only signer
Deposit ==
    InstructionSpec("deposit", Disc2,
        <<AccountSpec("vault", FALSE, TRUE, <<Const("vault"), AccountSeed("user")>>),
          AccountSpec("user", TRUE, TRUE, <<>>)>>,
        <<ArgSpec("amount", [str |-> "u64"])>>)

\* no arguments, two derived accounts after the signer
Initialize ==
    InstructionSpec("initialize", Disc1,
        <<AccountSpec("authority", TRUE, TRUE, <<>>),
          AccountSpec("config", FALSE, TRUE, <<Const("config")>>),
          AccountSpec("vault", FALSE, TRUE, <<Const("vault"), AccountSeed("authority")>>)>>,
        <<>>)

\* two signers, no derived account
Transfer ==
    InstructionSpec("transfer", Disc1,
        <<AccountSpec("from", TRUE, TRUE, <<>>),
          AccountSpec("to", FALSE, TRUE, <<>>),
          AccountSpec("authority", TRUE, FALSE, <<>>)>>,
        <<ArgSpec("amount", [str |-> "u64"]), ArgSpec("flag", [str |-> "bool"])>>)

\* an argument of a user-defined type
Configure ==
    InstructionSpec("configure", Disc2,
        <<AccountSpec("admin", TRUE, FALSE, <<>>)>>,
        <<ArgSpec("settings", [defined |-> "Settings"])>>)

\* a derived account that is flagged signer
Crank ==
    InstructionSpec("crank", Disc1,
        <<AccountSpec("pool", TRUE, TRUE, <<Const("pool")>>)>>,
        <<>>)

Catalogue == {Deposit, Initialize, Transfer, Configure, Crank}

ProgramSpec(k, instructions) ==
    [idl_file |-> "p" \o ToString(k) \o ".json",
     program_id |-> "Prog" \o ToString(k),
     deploy_so |-> "target/deploy/p" \o ToString(k) \o ".so",
     instructions |-> instructions]

\* the ways to deal n instructions, in order, to at most MaxPrograms description
\* files: own[i] is the file of the i-th instruction
Owners(n) ==
    {own \in [1..n -> 1..MaxPrograms] :
        /\ own[1] = 1
        /\ \A i \in 2..n : own[i] \in {own[i - 1], own[i - 1] + 1}}

Chunk(l, own, k) ==
    LET idx == {i \in DOMAIN l : own[i] = k}
        lo == CHOOSE i \in idx : \A j \in idx : i <= j
    IN  [j \in 1..Cardinality(idx) |-> l[lo + j - 1]]

\* instruction names are distinct within one description file
DistinctNames(l) == \A i, j \in DOMAIN l : i # j => l[i].name # l[j].name

ProgramInputs ==
    {ps \in UNION {{[k \in 1..own[Len(l)] |-> ProgramSpec(k, Chunk(l, own, k))] :
                       own \in Owners(Len(l))} :
                   l \in SeqsUpTo(Catalogue, MaxIx) \ {<<>>}} :
        \A k \in DOMAIN ps : DistinctNames(ps[k].instructions)}

(***************************************************************************)
(* The project directory of a run: the description file `anchor build`     *)
(* writes for a ProgramSpec, and the artifact next to it.                  *)
(***************************************************************************)
\* the characters of the constant seeds the catalogue uses
SeedChars(bytes) ==
    CASE bytes = "vault" -> <<"v", "a", "u", "l", "t">>
      [] bytes = "config" -> <<"c", "o", "n", "f", "i", "g">>
      [] bytes = "pool" -> <<"p", "o", "o", "l">>

SeedJson(seed) ==
    IF seed.kind = "const"
    THEN [kind |-> <<"const">>,
          value |-> <<[i \in DOMAIN SeedChars(seed.bytes) |-> [byte |-> SeedChars(seed.bytes)[i]]]>>,
          path |-> <<>>]
    ELSE [kind |-> <<"account">>, value |-> <<>>, path |-> <<seed.path>>]

\* anchor writes "signer" / "writable" only when they are true
AccountJson(acc) ==
    [name |-> <<acc.name>>,
     signer |-> IF acc.signer THEN <<TRUE>> ELSE <<>>,
     writable |-> IF acc.writable THEN <<TRUE>> ELSE <<>>,
     seeds |-> IF acc.pda_seeds = <<>> THEN <<>>
               ELSE <<[i \in DOMAIN acc.pda_seeds |-> SeedJson(acc.pda_seeds[i])]>>]

ArgJson(arg) == [name |-> <<arg.name>>, type |-> arg.ty]

IxJson(ix) ==
    [name |-> <<ix.name>>,
     discriminator |-> <<[i \in DOMAIN ix.discriminator |-> [u64 |-> ix.discriminator[i]]]>>,
     accounts |-> <<[i \in DOMAIN ix.accounts |-> AccountJson(ix.accounts[i])]>>,
     args |-> <<[i \in DOMAIN ix.args |-> ArgJson(ix.args[i])]>>]

IdlJson(address, metadata_name, instructions) ==
    [address |-> address, metadata_address |-> <<>>, metadata_name |-> metadata_name,
     instructions |-> instructions]

JsonFile(stem, idl) == [stem |-> stem, ext |-> <<"json">>, content |-> [kind |-> "json", idl |-> idl]]
SoFile(stem) == [stem |-> stem, ext |-> <<"so">>, content |-> [kind |-> "binary"]]
Directory(entries) == [readable |-> TRUE, entries |-> entries]

\* target/idl/p<k>.json of the k-th program
IdlFile(k, p) ==
    JsonFile(<<"p", ToString(k)>>,
             IdlJson(<<p.program_id>>, << <<"p", ToString(k)>> >>,
                     <<[j \in DOMAIN p.instructions |-> IxJson(p.instructions[j])]>>))

IdlDirOf(ps) == Directory([k \in DOMAIN ps |-> IdlFile(k, ps[k])])
DeployDirOf(ps) == Directory([k \in DOMAIN ps |-> SoFile(<<"p", ToString(k)>>)])

MutationKinds == {"None", "WrongProgramId", "TruncateData", "WrongPda"}

\* what the sandbox does in one run: whether setup succeeds, and the kinds of
\* invocation the loaded program accepts
Oracles ==
    {[setup |-> "ok", accepts |-> a] :
        a \in {MutationKinds, {"None"}, MutationKinds \ {"None"}, {}}}
    \cup {[setup |-> u, accepts |-> {}] : u \in {"add_program", "airdrop"}}

SandboxFor(orc, case) == [setup |-> orc.setup, accept |-> case.mutation.kind \in orc.accepts]

(***************************************************************************)
(* Test Runner (runner.rs, run_tests; report.rs).                          *)
(***************************************************************************)
\* CheckResult::pass / CheckResult::fail
CheckPass(name, detail) == [name |-> name, ok |-> TRUE, detail |-> detail, hint |-> <<>>]
CheckFail(name, detail, hint) == [name |-> name, ok |-> FALSE, detail |-> detail, hint |-> <<hint>>]

ChecksJson(cs) ==
    [i \in DOMAIN cs |->
        [name |-> cs[i].name, ok |-> cs[i].ok, detail |-> cs[i].detail, hint |-> cs[i].hint]]

\* what write_min_report writes to target/anchor-suite/report.json
write_min_report(cs) == [tool |-> "anchor-suite", step |-> 4, checks |-> ChecksJson(cs)]

\* format!("{:?}", c.mutation)
MutationDebug(mutation) ==
    CASE mutation.kind = "None" -> "None"
      [] mutation.kind = "WrongProgramId" -> "WrongProgramId"
      [] mutation.kind = "TruncateData" -> "TruncateData"
      [] mutation.kind = "WrongPda" -> "WrongPda { account: \"" \o mutation.account \o "\" }"

\* checks.iter().filter(|c| !c.ok).count()
CountNotOk(cs) == Cardinality({i \in DOMAIN cs : ~cs[i].ok})

\* executed.iter().filter(|c| c.passed).count()
CountPassed(exe) == Cardinality({i \in DOMAIN exe : exe[i].passed})

\* executed.iter().filter(|c| !c.passed).count()
CountNotPassed(exe) == Cardinality({i \in DOMAIN exe : ~exe[i].passed})

\* what write_report writes to target/anchor-suite/report.json
write_report(cs, gen, exe, smoke_result) ==
    [tool |-> "anchor-suite",
     step |-> 4,
     summary |-> [checks_failed |-> CountNotOk(cs),
                  generated_edge_cases |-> Len(gen),
                  executed_cases |-> Len(exe),
                  case_passed |-> CountPassed(exe),
                  case_failed |-> CountNotPassed(exe)],
     checks |-> ChecksJson(cs),
     optional_smoke |-> smoke_result,
     generated_cases |->
         [i \in DOMAIN gen |->
             [id |-> gen[i].id, idl_file |-> gen[i].idl_file, program_id |-> gen[i].program_id,
              instruction |-> gen[i].instruction.name,
              mutation |-> MutationDebug(gen[i].mutation),
              expectation |-> gen[i].expectation]],
     executed_cases |->
         [i \in DOMAIN exe |->
             [id |-> exe[i].id, idl_file |-> exe[i].idl_file,
              instruction |-> exe[i].instruction, mutation |-> exe[i].mutation,
              expected_success |-> exe[i].expected_success,
              actual_success |-> exe[i].actual_success,
              passed |-> exe[i].passed, error |-> exe[i].error]]]

\* maybe_run_local_smoke: the test file is absent, cargo cannot be started, or
\* the test ran and passed or failed
maybe_run_local_smoke(outcome) ==
    IF outcome = "absent" THEN Ok(<<>>)
    ELSE IF outcome = "spawn_failed" THEN Err("Failed to execute optional smoke test")
    ELSE Ok(<<[ok |-> outcome = "ok",
               detail |-> "cargo test -p anchor-testing-suite --test litesvm_test -- --nocapture",
               stdout |-> "", stderr |-> ""]>>)

\* a final test that looks at the executed cases only
SuiteVerdict_CasesOnly(cs, case_failed) ==
    IF case_failed > 0 THEN Err("Test suite failed") ELSE Ok(<<>>)

\* if checks.iter().any(|c| !c.ok) || case_failed > 0 { bail!(..) } Ok(())
SuiteVerdict(cs, case_failed) ==
    IF (\E i \in DOMAIN cs : ~cs[i].ok) \/ case_failed > 0
    THEN Err("Test suite failed")
    ELSE Ok(<<>>)

(***************************************************************************)
(* The project directories of the runs.  idl_dir / deploy_dir are Options: *)
(* <<>> when the directory does not exist.                                 *)
(***************************************************************************)
ProjectDir(idl_dir, deploy_dir, smoke_outcome) ==
    [idl_dir |-> idl_dir, deploy_dir |-> deploy_dir, smoke |-> smoke_outcome]

\* projects whose run reaches the generated cases
BuiltProjects ==
    {ProjectDir(<<IdlDirOf(ps)>>, <<DeployDirOf(ps)>>, sm) :
        ps \in ProgramInputs, sm \in {"absent", "ok", "failed"}}

\* built projects in which two description files declare the same program
\* address, each with an artifact of its own
SharedAddressProjects ==
    {ProjectDir(<<IdlDirOf(ps)>>, <<DeployDirOf(ps)>>, "absent") :
        ps \in {<<ProgramSpec(1, <<Deposit>>),
                  [ProgramSpec(2, <<ix>>) EXCEPT !.program_id = "Prog1"]>> :
                    ix \in {Deposit, Transfer}}}

\* projects whose run ends before the cases are generated
BrokenProjects ==
    LET good == <<ProgramSpec(1, <<Deposit>>)>>
        corrupt == [stem |-> <<"p", "4">>, ext |-> <<"json">>, content |-> [kind |-> "invalid"]]
        locked == [stem |-> <<"p", "4">>, ext |-> <<"json">>, content |-> [kind |-> "unreadable"]]
        hollow == JsonFile(<<"p", "3">>, IdlJson(<<"Prog3">>, <<>>, << <<>> >>))
    IN  {ProjectDir(<<>>, <<DeployDirOf(good)>>, "absent"),
         ProjectDir(<<IdlDirOf(good)>>, <<>>, "absent"),
         ProjectDir(<<>>, <<>>, "absent"),
         ProjectDir(<<Directory(<<IdlFile(1, good[1]), corrupt>>)>>, <<DeployDirOf(good)>>, "absent"),
         ProjectDir(<<Directory(<<locked>>)>>, <<DeployDirOf(good)>>, "absent"),
         ProjectDir(<<Directory(<<>>)>>, <<Directory(<<>>)>>, "absent"),
         ProjectDir(<<Directory(<<hollow>>)>>, <<Directory(<<SoFile(<<"p", "3">>)>>)>>, "ok"),
         ProjectDir(<<IdlDirOf(good)>>, <<Directory(<<>>)>>, "absent"),
         ProjectDir(<<IdlDirOf(good)>>, <<DeployDirOf(good)>>, "spawn_failed")}

(***************************************************************************)
(* Spec: one run of run_tests (runner.rs:9-120, cases.rs:68-111).          *)
(***************************************************************************)
Init ==
    /\ env \in BuiltProjects \cup SharedAddressProjects \cup BrokenProjects
    /\ oracle \in Oracles
    /\ pc = "start"
    /\ programs = <<>>
    /\ checks = <<>> /\ smoke = <<>> /\ report = <<>> /\ result = <<>>
    /\ generated = <<>> /\ program_bytes = <<>> /\ cursor = 0
    /\ executed = <<>> /\ submitted = <<>> /\ nextKey = 0
    /\ enc = IdleEnc /\ rc = IdleRc /\ ld = IdleLd /\ ledger = IdleLedger

\* checks.push(CheckResult::fail(..)); write_min_report(project_root, &checks)?; bail!(..)
AbortWithMinReport(failed, message) ==
    /\ checks' = failed
    /\ pc' = "aborted"
    /\ \E written \in BOOLEAN :
          IF written
          THEN report' = <<write_min_report(failed)>> /\ result' = <<Err(message)>>
          ELSE report' = report /\ result' = <<Err("failed to write report.json")>>

\* if idl_dir.exists() { .. } else { .. }
PreflightIdlDir ==
    /\ pc = "start"
    /\ IF env.idl_dir # <<>>
       THEN /\ checks' = Append(checks, CheckPass("idl_dir_exists", "target/idl"))
            /\ pc' = "idl_dir_found"
            /\ UNCHANGED <<report, result>>
       ELSE AbortWithMinReport(
                Append(checks, CheckFail("idl_dir_exists", "target/idl",
                                         "Run anchor build first")),
                "Test suite failed")
    /\ UNCHANGED <<programs, oracle, generated, program_bytes, cursor, executed, submitted,
                   nextKey, env, smoke, enc, rc, ld, ledger>>

\* if deploy_dir.exists() { .. } else { .. }
PreflightDeployDir ==
    /\ pc = "idl_dir_found"
    /\ IF env.deploy_dir # <<>>
       THEN /\ checks' = Append(checks, CheckPass("deploy_dir_exists", "target/deploy"))
            /\ pc' = "deploy_dir_found"
            /\ UNCHANGED <<report, result>>
       ELSE AbortWithMinReport(
                Append(checks, CheckFail("deploy_dir_exists", "target/deploy",
                                         "Run anchor build first")),
                "Test suite failed")
    /\ UNCHANGED <<programs, oracle, generated, program_bytes, cursor, executed, submitted,
                   nextKey, env, smoke, enc, rc, ld, ledger>>

\* let programs = load_program_specs(&idl_dir, &deploy_dir)?; if programs.is_empty() { .. }
LoadSpecs ==
    /\ pc = "deploy_dir_found"
    /\ LET loaded == load_program_specs(env.idl_dir[1], env.deploy_dir[1])
       IN  IF ~loaded.ok
           THEN /\ result' = <<loaded>>
                /\ pc' = "aborted"
                /\ UNCHANGED <<programs, checks, report>>
           ELSE IF loaded.val = <<>>
           THEN /\ AbortWithMinReport(
                       Append(checks,
                              CheckFail("program_specs_loaded",
                                        "No testable IDL program specs found",
                                        "Ensure IDL has instructions and matching .so exists in target/deploy")),
                       "No testable programs found")
                /\ UNCHANGED programs
           ELSE /\ programs' = loaded.val
                /\ checks' = Append(checks,
                                    CheckPass("program_specs_loaded",
                                              "loaded " \o ToString(Len(loaded.val))
                                                  \o " program specs"))
                /\ pc' = "specs_loaded"
                /\ UNCHANGED <<report, result>>
    /\ UNCHANGED <<oracle, generated, program_bytes, cursor, executed, submitted, nextKey,
                   env, smoke, enc, rc, ld, ledger>>

\* let smoke = maybe_run_local_smoke(project_root)?; if let Some(smoke_result) = &smoke { .. }
SmokeTest ==
    /\ pc = "specs_loaded"
    /\ LET ran == maybe_run_local_smoke(env.smoke)
       IN  IF ~ran.ok
           THEN /\ result' = <<ran>>
                /\ pc' = "aborted"
                /\ UNCHANGED <<smoke, checks>>
           ELSE /\ smoke' = ran.val
                /\ checks' = IF ran.val = <<>> THEN checks
                             ELSE IF ran.val[1].ok
                             THEN Append(checks, CheckPass("optional_smoke_test", ran.val[1].detail))
                             ELSE Append(checks, CheckFail("optional_smoke_test", ran.val[1].detail,
                                                           "Inspect stderr/stdout in report"))
                /\ pc' = "loaded"
                /\ UNCHANGED result
    /\ UNCHANGED <<programs, oracle, generated, program_bytes, cursor, executed, submitted,
                   nextKey, env, report, enc, rc, ld, ledger>>

\* let generated = generate_edge_cases(&programs); checks.push(CheckResult::pass(..))
Generate ==
    /\ pc = "loaded"
    /\ generated' = generate_edge_cases(programs)
    /\ checks' = Append(checks,
                        CheckPass("edge_case_generation",
                                  "generated " \o ToString(Len(generated')) \o " idl-driven cases"))
    /\ pc' = "generated"
    /\ UNCHANGED <<programs, oracle, program_bytes, cursor, executed, submitted, nextKey,
                   env, smoke, report, result, enc, rc, ld, ledger>>

\* execute_edge_cases: every artifact is read
ReadArtifacts ==
    /\ pc = "generated"
    /\ program_bytes' = ReadPrograms(programs, 1, <<>>)
    /\ cursor' = 1
    /\ pc' = "executing"
    /\ UNCHANGED <<programs, oracle, generated, executed, submitted, nextKey, harnessVars,
                   enc, rc, ld, ledger>>

\* execute_edge_cases: fs::read of an artifact fails, the function returns Err,
\* which run_tests returns
ReadArtifactFails ==
    /\ pc = "generated"
    /\ \E k \in DOMAIN programs :
          result' = <<Err("Failed to read " \o programs[k].deploy_so)>>
    /\ pc' = "read_failed"
    /\ UNCHANGED <<programs, oracle, generated, program_bytes, cursor, executed, submitted,
                   nextKey, env, checks, smoke, report, enc, rc, ld, ledger>>

\* one iteration of `for case in cases`
ExecuteCase ==
    /\ pc = "executing"
    /\ cursor <= Len(generated)
    /\ LET case == generated[cursor]
           run == run_case(SandboxFor(oracle, case), case, nextKey)
       IN  IF case.program_id \notin DOMAIN program_bytes
           THEN /\ cursor' = cursor + 1
                /\ UNCHANGED <<pc, executed, submitted, nextKey>>
           ELSE IF run.status = "panic"
           THEN /\ pc' = "panicked"
                /\ nextKey' = run.next
                /\ UNCHANGED <<cursor, executed, submitted>>
           ELSE /\ executed' = Append(executed, ExecutedCase(case, run))
                /\ submitted' = Append(submitted,
                                        [program_bytes |-> program_bytes[case.program_id],
                                         payer |-> run.payer, tx |-> run.tx])
                /\ nextKey' = run.next
                /\ cursor' = cursor + 1
                /\ UNCHANGED pc
    /\ UNCHANGED <<programs, oracle, generated, program_bytes, harnessVars, enc, rc, ld, ledger>>

\* Ok(out)
ReturnExecuted ==
    /\ pc = "executing"
    /\ cursor > Len(generated)
    /\ pc' = "executed"
    /\ UNCHANGED <<programs, oracle, generated, program_bytes, cursor, executed, submitted,
                   nextKey, harnessVars, enc, rc, ld, ledger>>

\* runner.rs:88-119: the last check, the report, and the status of the run
Summarize ==
    /\ pc = "executed"
    /\ LET case_passed == CountPassed(executed)
           case_failed == Len(executed) - case_passed
           final ==
               Append(checks,
                      IF case_failed = 0
                      THEN CheckPass("generated_case_execution",
                                     "all " \o ToString(Len(executed))
                                         \o " generated cases matched expectations")
                      ELSE CheckFail("generated_case_execution",
                                     ToString(case_failed) \o " of " \o ToString(Len(executed))
                                         \o " generated cases did not match expectations",
                                     "Inspect executed_cases in report.json"))
       IN  /\ checks' = final
           /\ \E written \in BOOLEAN :
                 IF written
                 THEN /\ report' = <<write_report(final, generated, executed, smoke)>>
                      /\ result' = <<SuiteVerdict(final, case_failed)>>
                 ELSE /\ report' = report
                      /\ result' = <<Err("Failed to write target/anchor-suite/report.json")>>
    /\ pc' = "returned"
    /\ UNCHANGED <<programs, oracle, generated, program_bytes, cursor, executed, submitted,
                   nextKey, env, smoke, enc, rc, ld, ledger>>

Next ==
    \/ PreflightIdlDir \/ PreflightDeployDir \/ LoadSpecs \/ SmokeTest
    \/ Generate \/ ReadArtifacts \/ ReadArtifactFails \/ ExecuteCase \/ ReturnExecuted
    \/ Summarize

Spec == Init /\ [][Next]_vars

\* generate_edge_cases has returned
CasesGenerated ==
    pc \in {"generated", "executing", "read_failed", "panicked", "executed", "returned"}

(***************************************************************************)
(* Claims about generate_edge_cases and execute_edge_cases, under Spec.    *)
(***************************************************************************)
\* the names of the accounts with a non-empty seed list, in declaration order
DerivedNames(ix) ==
    LET d == SelectSeq(ix.accounts, LAMBDA a : a.pda_seeds # <<>>)
    IN  [i \in DOMAIN d |-> d[i].name]

SizeOf(ix) == Len(DerivedNames(ix)) + 3

RECURSIVE SumSizes(_, _)
SumSizes(ixs, n) == IF n = 0 THEN 0 ELSE SizeOf(ixs[n]) + SumSizes(ixs, n - 1)

RECURSIVE SumPrograms(_, _)
SumPrograms(ps, n) ==
    IF n = 0 THEN 0
    ELSE SumSizes(ps[n].instructions, Len(ps[n].instructions)) + SumPrograms(ps, n - 1)

\* the positions of `generated` that target instruction j of program k
CasesOf(k, j) ==
    {i \in DOMAIN generated :
        /\ generated[i].idl_file = programs[k].idl_file
        /\ generated[i].instruction = programs[k].instructions[j]}

\* C1: for every instruction with k derived accounts exactly k+3 cases are
\* generated: one None, one WrongProgramId, one TruncateData and one WrongPda
\* per derived account; the list has the sum of k+3 over all instructions.
C1_KPlusThreeCasesPerInstruction ==
    CasesGenerated =>
        /\ \A k \in DOMAIN programs : \A j \in DOMAIN programs[k].instructions :
              LET ix == programs[k].instructions[j]
                  With(m) == {i \in CasesOf(k, j) : generated[i].mutation = m}
              IN  /\ Cardinality(CasesOf(k, j)) = Len(DerivedNames(ix)) + 3
                  /\ Cardinality(With(MutNone)) = 1
                  /\ Cardinality(With(MutWrongProgramId)) = 1
                  /\ Cardinality(With(MutTruncateData)) = 1
                  /\ \A n \in Range(DerivedNames(ix)) :
                        Cardinality(With(MutWrongPda(n))) = 1
        /\ Len(generated) = SumPrograms(programs, Len(programs))

C1_Witness ==
    /\ pc = "generated"
    /\ Len(programs) = 1
    /\ programs[1].instructions = <<Initialize, Transfer>>
    /\ Len(generated) = 5 + 3

\* the number of cases generated before those of instruction j of program k
Offset(k, j) == SumPrograms(programs, k - 1) + SumSizes(programs[k].instructions, j - 1)

IsCase(i, p, ix, suffix, mutation, expectation) ==
    /\ i \in DOMAIN generated
    /\ generated[i].id = p.idl_file \o "_" \o ix.name \o "_" \o suffix
    /\ generated[i].idl_file = p.idl_file
    /\ generated[i].program_id = p.program_id
    /\ generated[i].instruction = ix
    /\ generated[i].mutation = mutation
    /\ generated[i].expectation = expectation

\* C2: cases come in program order, then instruction order, and per instruction
\* as base (None, Any), wrong_program, truncate_data, then one wrong_pda_<account>
\* per derived account in declaration order, all MustFail; only the baseline has
\* expectation Any; the deposit scenario yields exactly its four cases.
C2_FixedOrderAndIds ==
    CasesGenerated =>
        /\ \A k \in DOMAIN programs : \A j \in DOMAIN programs[k].instructions :
              LET p == programs[k]
                  ix == p.instructions[j]
                  at == Offset(k, j)
                  names == DerivedNames(ix)
              IN  /\ IsCase(at + 1, p, ix, "base", MutNone, "Any")
                  /\ IsCase(at + 2, p, ix, "wrong_program", MutWrongProgramId, "MustFail")
                  /\ IsCase(at + 3, p, ix, "truncate_data", MutTruncateData, "MustFail")
                  /\ \A m \in DOMAIN names :
                        IsCase(at + 3 + m, p, ix, "wrong_pda_" \o names[m],
                               MutWrongPda(names[m]), "MustFail")
        /\ \A i \in DOMAIN generated :
              (generated[i].expectation = "Any") <=> (generated[i].mutation = MutNone)
        /\ (Len(programs) = 1 /\ programs[1].instructions = <<Deposit>>) =>
              [i \in DOMAIN generated |-> <<generated[i].id, generated[i].expectation>>]
                  = << <<"p1.json_deposit_base", "Any">>,
                       <<"p1.json_deposit_wrong_program", "MustFail">>,
                       <<"p1.json_deposit_truncate_data", "MustFail">>,
                       <<"p1.json_deposit_wrong_pda_vault", "MustFail">> >>

C2_Witness ==
    /\ pc = "generated"
    /\ Len(programs) = 2
    /\ programs[1].instructions = <<Deposit>>
    /\ programs[2].instructions = <<Initialize>>
    /\ generated[4].id = "p1.json_deposit_wrong_pda_vault"
    /\ generated[5].id = "p2.json_initialize_base"
    /\ generated[9].id = "p2.json_initialize_wrong_pda_vault"

\* the case an ExecutedCase reports on
CaseOf(e) == CHOOSE c \in Range(generated) : c.id = e.id

\* C9: an ExecutedCase of an Any case has passed = true whatever was observed and
\* no expected_success; one of a MustFail case has passed = true exactly when
\* actual_success is false, and expected_success = Some(false).
C9_JudgeFollowsExpectation ==
    \A i \in DOMAIN executed :
        LET e == executed[i]
            c == CaseOf(e)
        IN  /\ c.expectation = "Any" => (e.passed /\ e.expected_success = <<>>)
            /\ c.expectation = "MustFail" =>
                  ((e.passed <=> ~e.actual_success) /\ e.expected_success = <<FALSE>>)

C9_Witness ==
    /\ \E i \in DOMAIN executed :
          /\ CaseOf(executed[i]).expectation = "Any"
          /\ ~executed[i].actual_success /\ executed[i].passed
    /\ \E i \in DOMAIN executed :
          /\ CaseOf(executed[i]).expectation = "MustFail"
          /\ executed[i].actual_success /\ ~executed[i].passed

\* C10: execute_edge_cases returns exactly one ExecutedCase per EdgeCase, in the
\* same order and with the same id, instruction name and mutation; no case is
\* skipped, whatever fails while the case is built and run.
C10_OneExecutedCasePerEdgeCase ==
    /\ pc # "panicked"
    /\ pc = "executed" =>
          /\ Len(executed) = Len(generated)
          /\ \A i \in DOMAIN executed :
                /\ executed[i].id = generated[i].id
                /\ executed[i].instruction = generated[i].instruction.name
                /\ executed[i].mutation = MutationLabel(generated[i].mutation)

AllChecksOk == \A i \in DOMAIN checks : checks[i].ok
NoCaseFailed == \A i \in DOMAIN executed : executed[i].passed
SmokeFailed == smoke # <<>> /\ ~smoke[1].ok

\* C11: run_tests returns Ok only when every recorded check is ok and no executed
\* case has passed = false, and returns an error whenever a check is not ok or a
\* case failed; a failing optional smoke test alone makes the run fail, while all
\* cases are still generated, executed and reported.
C11_RunFailsOnFailedCheckOrCase ==
    /\ result # <<>> =>
          (result[1].ok => (pc = "returned" /\ AllChecksOk /\ NoCaseFailed))
    /\ (pc = "returned" /\ report # <<>>) =>
          (result[1].ok <=> (AllChecksOk /\ NoCaseFailed))
    /\ (pc = "returned" /\ SmokeFailed) =>
          /\ result[1] = Err(IF report # <<>> THEN "Test suite failed"
                             ELSE "Failed to write target/anchor-suite/report.json")
          /\ generated = generate_edge_cases(programs)
          /\ [i \in DOMAIN executed |-> executed[i].id]
                 = [i \in DOMAIN generated |-> generated[i].id]
          /\ report # <<>> =>
                /\ [i \in DOMAIN report[1].generated_cases |-> report[1].generated_cases[i].id]
                       = [i \in DOMAIN generated |-> generated[i].id]
                /\ report[1].executed_cases = executed
                /\ report[1].optional_smoke = smoke
                /\ report[1].summary.checks_failed >= 1

C11_Witness ==
    /\ pc = "returned" /\ SmokeFailed /\ NoCaseFailed
    /\ \A i \in DOMAIN checks : checks[i].ok <=> checks[i].name # "optional_smoke_test"
    /\ Len(generated) = 4 /\ Len(executed) = 4
    /\ report # <<>> /\ report[1].summary.case_failed = 0
    /\ report[1].summary.checks_failed = 1
    /\ result = <<Err("Test suite failed")>>

\* the files of target/idl, if the directory exists
IdlPaths ==
    IF env.idl_dir = <<>> THEN {}
    ELSE {"target/idl/" \o FileName(env.idl_dir[1].entries[i]) :
             i \in DOMAIN env.idl_dir[1].entries}

\* run_tests has returned because an input directory is missing, a description
\* file is unreadable or not valid JSON, or no program spec was resolved
InputAbort ==
    /\ pc = "aborted"
    /\ result[1].err \in
           {"Test suite failed", "No testable programs found"}
           \cup {"failed to read " \o f : f \in IdlPaths}
           \cup {"Invalid JSON in " \o f : f \in IdlPaths}

\* C12: whenever run_tests aborts because an input directory is missing, a
\* description file is unreadable or not valid JSON, or zero program specs were
\* resolved, the minimal report with the checks recorded so far, the failing one
\* included, has been written before the abort is returned.
C12_AbortWritesMinimalReport ==
    InputAbort =>
        /\ report = <<write_min_report(checks)>>
        /\ checks # <<>> /\ ~checks[Len(checks)].ok

\* C19: a per-case failure never aborts the run: a case whose instruction has an
\* argument of an unsupported type is recorded with actual_success = false and the
\* encoder's error naming the argument, and every case is still executed, whatever
\* fails while a case is built, encoded or submitted.
C19_PerCaseFailureNeverAborts ==
    /\ pc # "panicked"
    /\ \A i \in DOMAIN executed :
          LET encoded == encode_instruction_data(CaseOf(executed[i]).instruction)
          IN  (~encoded.ok /\ oracle.setup = "ok") =>
                  /\ ~executed[i].actual_success
                  /\ executed[i].error = <<encoded.err>>
    /\ pc \in {"executed", "returned"} => Len(executed) = Len(generated)

\* how far run_tests has come
PhaseRank(at) ==
    CASE at = "start" -> 0
      [] at = "idl_dir_found" -> 1
      [] at = "deploy_dir_found" -> 2
      [] at = "specs_loaded" -> 3
      [] at = "loaded" -> 4
      [] at = "generated" -> 5
      [] at = "executing" -> 6
      [] at = "executed" -> 7
      [] at \in {"returned", "aborted", "read_failed", "panicked"} -> 8

\* every address the run of one executed case has used
KeysOf(run) ==
    Range(run.payer)
    \cup UNION {{run.tx[t].fee_payer, run.tx[t].instruction.program_id}
                  \cup {run.tx[t].signers[i].pubkey : i \in DOMAIN run.tx[t].signers}
                  \cup {run.tx[t].instruction.accounts[i].pubkey :
                            i \in DOMAIN run.tx[t].instruction.accounts} :
               t \in DOMAIN run.tx}

\* C21: the complete list of cases is generated, in one step, before the first
\* case is executed and never changes afterwards; the cases are executed one
\* per step in the generated order, each with a payer created for that case
\* that no earlier case has used; the optional smoke test is invoked at most
\* once per run, after the program specs are loaded and before generation.
C21_GenerateThenExecuteInOrder ==
    [][/\ PhaseRank(pc') >= PhaseRank(pc)
       /\ generated' # generated =>
              /\ pc = "loaded" /\ generated = <<>> /\ executed = <<>> /\ cursor = 0
              /\ generated' = generate_edge_cases(programs)
       /\ executed' # executed =>
              /\ pc = "executing" /\ generated' = generated
              /\ cursor' = cursor + 1
              /\ Len(executed') = Len(executed) + 1
              /\ SubSeq(executed', 1, Len(executed)) = executed
              /\ executed'[Len(executed')].id = generated[cursor].id
              /\ Len(submitted') = Len(executed')
              /\ LET run == submitted'[Len(submitted')]
                 IN  \A i \in DOMAIN submitted : Range(run.payer) \cap KeysOf(submitted[i]) = {}
       /\ (smoke' # smoke \/ (pc = "specs_loaded" /\ pc' # pc)) =>
              /\ pc = "specs_loaded" /\ PhaseRank(pc') > PhaseRank(pc)
              /\ smoke = <<>> /\ programs # <<>> /\ generated = <<>>
      ]_vars

\* a run with a smoke test in which two cases were executed, each with its own payer
C21_Witness ==
    /\ pc = "returned" /\ smoke # <<>>
    /\ Len(generated) >= 2 /\ Len(executed) = Len(generated)
    /\ submitted[1].payer # <<>> /\ submitted[2].payer # <<>>
    /\ submitted[1].payer # submitted[2].payer

\* C24: once load_program_specs has returned the program specs, the payload of
\* every loaded instruction can be encoded: an unsupported or malformed argument
\* type descriptor has been detected by the loader.
C24_LoadedInstructionsAlwaysEncode ==
    pc \in {"specs_loaded", "loaded", "generated", "executing", "executed", "returned"} =>
        \A k \in DOMAIN programs : \A j \in DOMAIN programs[k].instructions :
            encode_instruction_data(programs[k].instructions[j]).ok

\* the error run_case returns for a case under the sandbox of the run, None
\* when nothing fails: registration, funding, encoding, submission, in this order
ErrorOf(case) ==
    LET encoded == encode_instruction_data(case.instruction)
    IN  IF oracle.setup = "add_program" THEN <<"add_program failed">>
        ELSE IF oracle.setup = "airdrop" THEN <<"airdrop failed">>
        ELSE IF ~encoded.ok THEN <<encoded.err>>
        ELSE IF ~SandboxFor(oracle, case).accept THEN <<"transaction failed">>
        ELSE <<>>

\* C25: every error inside run_case -- program registration, payer funding,
\* payload encoding or transaction submission -- is recorded as
\* actual_success = false with that error as text, so a MustFail case whose
\* sandbox setup failed is judged passed; in every ExecutedCase the error text
\* is present exactly when actual_success is false.
C25_EveryErrorIsObservedFailure ==
    \A i \in DOMAIN executed :
        LET case == CaseOf(executed[i])
        IN  /\ executed[i].error = ErrorOf(case)
            /\ executed[i].actual_success <=> executed[i].error = <<>>
            /\ (case.expectation = "MustFail" /\ oracle.setup # "ok") => executed[i].passed

\* a run whose sandbox cannot fund the payer: the MustFail cases pass
C25_Witness ==
    /\ pc = "returned" /\ oracle.setup = "airdrop"
    /\ \E i \in DOMAIN executed :
          /\ executed[i].expected_success = <<FALSE>>
          /\ executed[i].error = <<"airdrop failed">>
          /\ ~executed[i].actual_success /\ executed[i].passed

\* C28: every case is executed against the bytecode read from the artifact
\* (deploy_so) of the ProgramSpec it was generated from, also when two
\* ProgramSpecs declare the same program address and have different artifacts.
C28_CaseRunsItsOwnArtifact ==
    \A i \in DOMAIN submitted : \A k \in DOMAIN programs :
        programs[k].idl_file = executed[i].idl_file =>
            submitted[i].program_bytes = programs[k].deploy_so

(***************************************************************************)
(* SpecCase: one call of run_case, statement by statement, for every case  *)
(* generated from one instruction.  The i-th account is named acc<i>; a    *)
(* seed may name any account of the instruction, itself and later ones     *)
(* included, or an account the instruction does not have.                  *)
(***************************************************************************)
AccName(i) == "acc" \o ToString(i)

SeedChoices ==
    {<<>>, <<Const("vault")>>}
    \cup {<<Const("vault"), AccountSeed(AccName(j))>> : j \in 1..(MaxAccounts + 1)}

AccountShapes == [signer : BOOLEAN, pda_seeds : SeedChoices]

\* the writable flag follows the signer flag at odd positions and is its
\* opposite at even ones, so that each combination of the two flags occurs
WritableAt(i, signer) == signer = (i % 2 = 1)

CaseAccountLists ==
    UNION {{[i \in 1..n |-> AccountSpec(AccName(i), sh[i].signer,
                                        WritableAt(i, sh[i].signer), sh[i].pda_seeds)] :
               sh \in [1..n -> AccountShapes]} :
           n \in 0..MaxAccounts}

CaseArgLists ==
    {<<>>,
     <<ArgSpec("amount", [str |-> "u64"])>>,
     <<ArgSpec("settings", [defined |-> "Settings"])>>}

CaseInputs ==
    UNION {Range(generate_edge_cases(<<ProgramSpec(1, <<InstructionSpec("ix", Disc1, a, g)>>)>>)) :
              a \in CaseAccountLists, g \in CaseArgLists}

NoKeypair == [pubkey |-> ""]
NoMaps == [pubkey_by_name |-> <<>>, signer_by_name |-> <<>>, next |-> 0]

CaseInit ==
    /\ rc \in {[pc |-> "start", case |-> c, payer |-> NoKeypair, pubkey_by_name |-> <<>>,
                signer_by_name |-> <<>>, next |-> 0, direct |-> NoMaps, metas |-> <<>>,
                extra_signers |-> <<>>, data |-> <<>>, status |-> "", error |-> "",
                tx |-> <<>>, registered |-> <<>>] : c \in CaseInputs}
    /\ IdleRun /\ enc = IdleEnc /\ ld = IdleLd /\ ledger = IdleLedger

\* svm.add_program(..)? or svm.airdrop(..)? fails: run_case returns the error
RcSetupFails ==
    /\ rc.pc = "start"
    /\ \E which \in {"add_program", "airdrop"} :
          rc' = [rc EXCEPT !.pc = "returned", !.status = "err",
                           !.error = which \o " failed",
                           !.next = IF which = "airdrop" THEN 1 ELSE 0,
                           !.registered = IF which = "airdrop" THEN <<rc.case.program_id>>
                                          ELSE <<>>]
    /\ UNCHANGED <<runVars, enc, ld, ledger>>

\* svm.add_program(case.program_id, program_bytes), let payer = Keypair::new(), and
\* the airdrop, both calls Ok; `registered` is the address the bytecode is under
RcSetup ==
    /\ rc.pc = "start"
    /\ rc' = [rc EXCEPT !.pc = "direct", !.payer = KeypairNew(0), !.next = 1,
                        !.registered = <<rc.case.program_id>>]
    /\ UNCHANGED <<runVars, enc, ld, ledger>>

\* build_accounts, pass 1; `direct` keeps what the pass left behind
RcDirectPass ==
    /\ rc.pc = "direct"
    /\ LET st == DirectPass(rc.case.instruction.accounts, 1, rc.payer,
                     [pubkey_by_name |-> <<>>, signer_by_name |-> <<>>, next |-> rc.next])
       IN  rc' = [rc EXCEPT !.pc = "derive", !.pubkey_by_name = st.pubkey_by_name,
                            !.signer_by_name = st.signer_by_name, !.next = st.next,
                            !.direct = st]
    /\ UNCHANGED <<runVars, enc, ld, ledger>>

\* build_accounts, pass 2
RcDerivePass ==
    /\ rc.pc = "derive"
    /\ rc' = [rc EXCEPT !.pc = "mutate",
                        !.pubkey_by_name = DerivePass(rc.case.instruction.accounts, 1,
                                                      rc.case.program_id, @)]
    /\ UNCHANGED <<runVars, enc, ld, ledger>>

\* build_accounts, the WrongPda substitution
RcApplyWrongPda ==
    /\ rc.pc = "mutate"
    /\ LET st == ApplyWrongPda(rc.case.mutation,
                     [pubkey_by_name |-> rc.pubkey_by_name,
                      signer_by_name |-> rc.signer_by_name, next |-> rc.next])
       IN  rc' = [rc EXCEPT !.pc = "emit", !.pubkey_by_name = st.pubkey_by_name,
                            !.next = st.next]
    /\ UNCHANGED <<runVars, enc, ld, ledger>>

\* build_accounts, the output loop and Ok((metas, extra_signers))
RcEmit ==
    /\ rc.pc = "emit"
    /\ LET st == EmitPass(rc.case.instruction.accounts, 1,
                     EmitStart([pubkey_by_name |-> rc.pubkey_by_name,
                                signer_by_name |-> rc.signer_by_name, next |-> rc.next]))
       IN  rc' = [rc EXCEPT !.pc = "encode", !.signer_by_name = st.signer_by_name,
                            !.next = st.next, !.metas = st.metas,
                            !.extra_signers = st.extra_signers]
    /\ UNCHANGED <<runVars, enc, ld, ledger>>

\* let mut data = encode_instruction_data(&case.instruction)?; then the truncation
RcEncode ==
    /\ rc.pc = "encode"
    /\ LET encoded == encode_instruction_data(rc.case.instruction)
       IN  rc' = IF encoded.ok
                 THEN [rc EXCEPT !.pc = "send",
                                 !.data = TruncateData(rc.case.mutation, encoded.val)]
                 ELSE [rc EXCEPT !.pc = "returned", !.status = "err", !.error = encoded.err]
    /\ UNCHANGED <<runVars, enc, ld, ledger>>

\* the routed program address, the Instruction, and send_ix
RcSend ==
    /\ rc.pc = "send"
    /\ \E accept \in BOOLEAN :
          LET routed == RoutedProgram(rc.case, rc.next)
              ix == Instruction(routed.program_id, rc.metas, rc.data)
              sent == send_ix([setup |-> "ok", accept |-> accept], rc.payer,
                              rc.extra_signers, ix)
          IN  rc' = [rc EXCEPT !.pc = IF sent.status = "panic" THEN "panicked" ELSE "returned",
                               !.status = sent.status, !.error = sent.error,
                               !.tx = sent.tx, !.next = routed.next]
    /\ UNCHANGED <<runVars, enc, ld, ledger>>

CaseNext ==
    \/ RcSetupFails \/ RcSetup \/ RcDirectPass \/ RcDerivePass \/ RcApplyWrongPda
    \/ RcEmit \/ RcEncode \/ RcSend

SpecCase == CaseInit /\ [][CaseNext]_vars

\* the statement-by-statement run returns what run_case returns
RunCaseAgrees ==
    rc.pc \in {"returned", "panicked"} =>
        \E u \in {"ok", "add_program", "airdrop"}, a \in BOOLEAN :
            LET r == run_case([setup |-> u, accept |-> a], rc.case, 0)
            IN  /\ r.status = rc.status /\ r.error = rc.error
                /\ r.tx = rc.tx /\ r.next = rc.next

(***************************************************************************)
(* SpecEncode: one call of encode_arg_zero or of encode_instruction_data.  *)
(***************************************************************************)
EncodeInit ==
    /\ enc \in {[pc |-> "arg", ty |-> t] : t \in TypeDescs(MaxDepth)}
               \cup {[pc |-> "ix", ix |-> i] : i \in EncInstructions}
    /\ IdleRun /\ rc = IdleRc /\ ld = IdleLd /\ ledger = IdleLedger

EncodeArg ==
    /\ enc.pc = "arg"
    /\ enc' = [pc |-> "arg_done", ty |-> enc.ty, out |-> encode_arg_zero(enc.ty)]
    /\ UNCHANGED <<runVars, rc, ld, ledger>>

EncodeIx ==
    /\ enc.pc = "ix"
    /\ enc' = [pc |-> "ix_done", ix |-> enc.ix, out |-> encode_instruction_data(enc.ix)]
    /\ UNCHANGED <<runVars, rc, ld, ledger>>

EncodeNext == EncodeArg \/ EncodeIx

SpecEncode == EncodeInit /\ [][EncodeNext]_vars

(***************************************************************************)
(* Claims about the encoder.                                               *)
(***************************************************************************)
IsArrayOf(ty) == "array" \in DOMAIN ty /\ Len(ty.array) = 2 /\ ty.array[2] >= 0

\* C4: a fixed-length array {array: [T, n]} whose element type T encodes to
\* w bytes is encoded as exactly n*w zero bytes.
C4_ArrayEncodesToNTimesW ==
    (enc.pc = "arg_done" /\ IsArrayOf(enc.ty) /\ encode_arg_zero(enc.ty.array[1]).ok) =>
        /\ enc.out.ok
        /\ enc.out.val =
               Zeros(enc.ty.array[2] * Len(encode_arg_zero(enc.ty.array[1]).val))

\* the widths the specification lists for the supported primitives
PrimitiveWidth(s) ==
    CASE s \in {"bool", "u8", "i8"} -> 1
      [] s \in {"u16", "i16"} -> 2
      [] s \in {"u32", "i32"} -> 4
      [] s \in {"u64", "i64"} -> 8
      [] s \in {"u128", "i128"} -> 16
      [] s = "pubkey" -> 32

RECURSIVE ZeroArgsFrom(_, _)
ZeroArgsFrom(args, i) ==
    IF i > Len(args) THEN <<>>
    ELSE Zeros(PrimitiveWidth(args[i].ty.str)) \o ZeroArgsFrom(args, i + 1)

AllPrimitive(ix) ==
    \A i \in DOMAIN ix.args :
        "str" \in DOMAIN ix.args[i].ty /\ ix.args[i].ty.str \in SupportedTags

\* C5: for an instruction whose arguments are all supported primitives the
\* payload is the 8 discriminator bytes unchanged, followed per argument in
\* declared order by as many zero bytes as the primitive is wide.
C5_PayloadIsDiscriminatorThenZeros ==
    (enc.pc = "ix_done" /\ AllPrimitive(enc.ix)) =>
        /\ enc.out.ok
        /\ enc.out.val = enc.ix.discriminator \o ZeroArgsFrom(enc.ix.args, 1)
        /\ Len(enc.ix.discriminator) = DiscriminatorLen

C5_Witness ==
    /\ enc.pc = "ix_done" /\ AllPrimitive(enc.ix) /\ Len(enc.ix.args) = MaxArgs
    /\ enc.ix.args[1].ty.str = "u128" /\ enc.ix.args[2].ty.str = "pubkey"
    /\ Len(enc.out.val) = 8 + 16 + 32

(***************************************************************************)
(* Claims about build_accounts and run_case, under SpecCase.               *)
(***************************************************************************)
SignerIdx(accounts) == {i \in DOMAIN accounts : accounts[i].signer}

\* the signer-flagged accounts that come after another signer-flagged account
LaterSignerIdx(accounts) ==
    {i \in SignerIdx(accounts) : \E j \in SignerIdx(accounts) : j < i}

\* pass 1 of build_accounts has run; build_accounts has returned
DirectPassDone == rc.payer # NoKeypair /\ rc.pc \notin {"start", "direct"}
AccountsBuilt == DirectPassDone /\ rc.pc \in {"encode", "send", "returned", "panicked"}

\* C6: in an instruction with exactly one signer-flagged account, that account
\* is bound to the primary payer's address and no independent signing identity
\* is generated for it, whatever its position in the account list.
C6_OnlySignerIsPayer ==
    LET accounts == rc.case.instruction.accounts
    IN  (rc.pc = "derive" /\ Cardinality(SignerIdx(accounts)) = 1) =>
            \A i \in SignerIdx(accounts) :
                /\ rc.pubkey_by_name[accounts[i].name] = rc.payer.pubkey
                /\ accounts[i].name \notin DOMAIN rc.signer_by_name

\* C7: every signer-flagged account after the first signer-flagged one is bound
\* to a freshly generated signing identity distinct from the payer, build_accounts
\* returns that identity among the extra signers, and the submitted transaction is
\* signed by the payer and by every extra signer.
C7_LaterSignersGetCollectedIdentities ==
    LET accounts == rc.case.instruction.accounts
        bound == rc.direct.pubkey_by_name
        identity == rc.direct.signer_by_name
    IN  /\ DirectPassDone =>
              \A i \in LaterSignerIdx(accounts) :
                  LET name == accounts[i].name
                  IN  /\ name \in DOMAIN identity
                      /\ bound[name] = identity[name].pubkey
                      /\ identity[name] # rc.payer
                      /\ \A other \in DOMAIN bound :
                            other # name => bound[other] # bound[name]
        /\ AccountsBuilt =>
              \A i \in LaterSignerIdx(accounts) :
                  identity[accounts[i].name] \in Range(rc.extra_signers)
        /\ rc.tx # <<>> =>
              /\ rc.tx[1].signers[1] = rc.payer
              /\ Range(rc.tx[1].signers) = {rc.payer} \cup Range(rc.extra_signers)

C7_Witness ==
    /\ rc.pc = "returned" /\ rc.tx # <<>>
    /\ Len(rc.case.instruction.accounts) = 2
    /\ LaterSignerIdx(rc.case.instruction.accounts) = {2}
    /\ rc.extra_signers = <<KeypairNew(1)>>
    /\ rc.tx[1].signers = <<KeypairNew(0), KeypairNew(1)>>

\* C8: a TruncateData case submits the payload of encode_instruction_data without
\* its final byte, which for an instruction without arguments is the first 7
\* discriminator bytes; every other case submits the payload unmodified.
C8_TruncateDropsFinalByteOnly ==
    (rc.pc = "returned" /\ rc.tx # <<>>) =>
        LET encoded == encode_instruction_data(rc.case.instruction)
            data == rc.tx[1].instruction.data
        IN  /\ encoded.ok
            /\ IF rc.case.mutation.kind = "TruncateData"
               THEN /\ Len(data) = Len(encoded.val) - 1
                    /\ \A j \in DOMAIN data : data[j] = encoded.val[j]
                    /\ rc.case.instruction.args = <<>> =>
                          data = [j \in 1..7 |-> rc.case.instruction.discriminator[j]]
               ELSE data = encoded.val

C8_Witness ==
    /\ rc.pc = "returned" /\ rc.tx # <<>>
    /\ rc.case.mutation.kind = "TruncateData"
    /\ rc.case.instruction.args = <<>>
    /\ rc.tx[1].instruction.data = <<1, 2, 3, 4, 5, 6, 7>>

\* every account-reference seed names an account declared earlier
NoForwardRefs(accounts) ==
    \A i \in DOMAIN accounts : \A k \in DOMAIN accounts[i].pda_seeds :
        accounts[i].pda_seeds[k].kind = "account" =>
            \E j \in 1..(i - 1) : accounts[j].name = accounts[i].pda_seeds[k].path

IndexOf(accounts, name) == CHOOSE j \in DOMAIN accounts : accounts[j].name = name

\* the seeds of account i in declared order: constant bytes verbatim, a reference
\* replaced by the address the account list `metas` has for the named account
SeedMaterial(accounts, i, metas) ==
    [k \in DOMAIN accounts[i].pda_seeds |->
        LET seed == accounts[i].pda_seeds[k]
        IN  IF seed.kind = "const" THEN seed.bytes
            ELSE metas[IndexOf(accounts, seed.path)].pubkey]

\* every derived account of `metas` has the address derived from its seeds and program_id
DerivedAsDeclared(accounts, metas, program_id) ==
    \A i \in DOMAIN accounts :
        accounts[i].pda_seeds # <<>> =>
            metas[i].pubkey
                = find_program_address(SeedMaterial(accounts, i, metas), program_id)

\* C16: for a case without forward seed references and with a mutation other than
\* WrongPda, the address build_accounts emits for each derived account is the
\* derivation of (its seeds in declared order, constants verbatim and references
\* replaced by the bound address of the named account; case.program_id).
C16_DerivedAddressFromSeedsAndProgram ==
    LET accounts == rc.case.instruction.accounts
    IN  (AccountsBuilt /\ rc.case.mutation.kind # "WrongPda" /\ NoForwardRefs(accounts)) =>
            /\ Len(rc.metas) = Len(accounts)
            /\ DerivedAsDeclared(accounts, rc.metas, rc.case.program_id)

C16_Witness ==
    /\ AccountsBuilt /\ rc.case.mutation.kind = "None"
    /\ Len(rc.case.instruction.accounts) = 2
    /\ rc.case.instruction.accounts[1].signer
    /\ rc.case.instruction.accounts[2].pda_seeds = <<Const("vault"), AccountSeed("acc1")>>
    /\ rc.metas[1].pubkey = "key0"
    /\ rc.metas[2].pubkey = "pda(vaultkey0)@Prog1"

\* what build_accounts and the encoder give for the baseline of the same instruction
Baseline == [rc.case EXCEPT !.mutation = MutNone]
BaselineAccounts == build_accounts(Baseline, rc.payer, 1)

\* the addresses a transaction mentions apart from the routed program
AddressesOf(tx) ==
    {tx.fee_payer} \cup {tx.instruction.accounts[i].pubkey : i \in DOMAIN tx.instruction.accounts}

\* C17: a WrongProgramId case submits its instruction to a freshly generated
\* address different from case.program_id, while the bytecode is registered under
\* case.program_id, the derived accounts are derived from case.program_id and the
\* account references and payload are those of the baseline; every other
\* mutation routes the instruction to case.program_id.
C17_WrongProgramIdOnlyChangesRouting ==
    (rc.pc = "returned" /\ rc.tx # <<>>) =>
        LET tx == rc.tx[1]
            accounts == rc.case.instruction.accounts
        IN  /\ rc.registered = <<rc.case.program_id>>
            /\ IF rc.case.mutation.kind = "WrongProgramId"
               THEN /\ tx.instruction.program_id # rc.case.program_id
                    /\ tx.instruction.program_id = KeypairNew(rc.next - 1).pubkey
                    /\ tx.instruction.program_id \notin AddressesOf(tx)
                    /\ tx.instruction.accounts = BaselineAccounts.metas
                    /\ tx.signers = <<rc.payer>> \o BaselineAccounts.extra_signers
                    /\ tx.instruction.data = encode_instruction_data(rc.case.instruction).val
                    /\ NoForwardRefs(accounts) =>
                          DerivedAsDeclared(accounts, tx.instruction.accounts,
                                            rc.case.program_id)
               ELSE tx.instruction.program_id = rc.case.program_id

C17_Witness ==
    /\ rc.pc = "returned" /\ rc.tx # <<>>
    /\ rc.case.mutation.kind = "WrongProgramId"
    /\ Len(rc.case.instruction.accounts) = 2
    /\ rc.tx[1].instruction.accounts[2].pubkey = "pda(vaultkey0)@Prog1"
    /\ rc.tx[1].instruction.program_id = "key2"
    /\ rc.registered = <<"Prog1">>

\* C18: for a WrongPda{account} case build_accounts gives exactly the named
\* account a freshly generated address that differs from the one the derivation
\* pass left; the addresses, signer flags and writable flags of all other
\* accounts, the payload and the routed program address are the baseline's.
C18_WrongPdaReplacesOnlyNamedAccount ==
    LET accounts == rc.case.instruction.accounts
        base == BaselineAccounts
    IN  (AccountsBuilt /\ rc.case.mutation.kind = "WrongPda") =>
            /\ Len(rc.metas) = Len(accounts)
            /\ \A i \in DOMAIN accounts :
                  IF accounts[i].name = rc.case.mutation.account
                  THEN /\ rc.metas[i].pubkey # base.metas[i].pubkey
                       /\ rc.metas[i].pubkey = KeypairNew(base.next).pubkey
                       /\ \A j \in DOMAIN accounts :
                             j # i => rc.metas[j].pubkey # rc.metas[i].pubkey
                       /\ rc.metas[i].pubkey # rc.payer.pubkey
                       /\ rc.metas[i].is_signer = base.metas[i].is_signer
                       /\ rc.metas[i].is_writable = base.metas[i].is_writable
                  ELSE rc.metas[i] = base.metas[i]
            /\ rc.extra_signers = base.extra_signers
            /\ rc.tx # <<>> =>
                  /\ rc.tx[1].instruction.data = encode_instruction_data(rc.case.instruction).val
                  /\ rc.tx[1].instruction.program_id = rc.case.program_id

C18_Witness ==
    /\ rc.pc = "returned" /\ rc.tx # <<>>
    /\ rc.case.mutation = MutWrongPda("acc2")
    /\ rc.case.instruction.accounts[1].signer
    /\ rc.case.instruction.accounts[2].pda_seeds = <<Const("vault"), AccountSeed("acc1")>>
    /\ rc.tx[1].instruction.accounts[1].pubkey = "key0"
    /\ rc.tx[1].instruction.accounts[2].pubkey = "key2"

\* the payload length the instruction declares: the discriminator and the widths
\* of its arguments
RECURSIVE DeclaredWidth(_)
DeclaredWidth(ty) ==
    IF "str" \in DOMAIN ty THEN PrimitiveWidth(ty.str)
    ELSE ty.array[2] * DeclaredWidth(ty.array[1])

RECURSIVE DeclaredArgsWidth(_, _)
DeclaredArgsWidth(args, i) ==
    IF i > Len(args) THEN 0
    ELSE DeclaredWidth(args[i].ty) + DeclaredArgsWidth(args, i + 1)

\* a correctly validating program: the invocation is routed to the registered
\* program, the payload is not shorter than the discriminator plus the declared
\* argument widths, and every derived-account slot holds the derivation of its seeds
ValidatorAccepts(tx, case, registered) ==
    LET accounts == case.instruction.accounts
    IN  /\ <<tx.instruction.program_id>> = registered
        /\ Len(tx.instruction.data) >= 8 + DeclaredArgsWidth(case.instruction.args, 1)
        /\ \A i \in DOMAIN accounts :
              accounts[i].pda_seeds # <<>> =>
                  /\ \A k \in DOMAIN accounts[i].pda_seeds :
                        accounts[i].pda_seeds[k].kind = "account" =>
                            \E j \in DOMAIN accounts :
                                accounts[j].name = accounts[i].pda_seeds[k].path
                  /\ tx.instruction.accounts[i].pubkey
                         = find_program_address(
                               SeedMaterial(accounts, i, tx.instruction.accounts),
                               registered[1])

\* the sandbox of this call answered as a correctly validating program does
OracleValidates ==
    rc.tx # <<>> => (rc.status = "ok" <=> ValidatorAccepts(rc.tx[1], rc.case, rc.registered))

HasUnresolvedSeed(accounts, i) ==
    \E k \in DOMAIN accounts[i].pda_seeds :
        LET seed == accounts[i].pda_seeds[k]
        IN  /\ seed.kind = "account"
            /\ \/ \A j \in DOMAIN accounts : accounts[j].name # seed.path
               \/ \E j \in (i + 1)..Len(accounts) :
                     accounts[j].name = seed.path /\ accounts[j].pda_seeds # <<>>

DerivePassDone == DirectPassDone /\ rc.pc # "derive"

\* C22: in the derivation pass a derived account with a reference seed that
\* names an account absent from the instruction, or another derived account
\* declared later, is skipped: it keeps the address pass 1 gave it, and unless
\* it is the WrongPda target it is emitted with that address.
C22_UnresolvedReferenceSkipsDerivation ==
    LET accounts == rc.case.instruction.accounts
        skipped == {i \in DOMAIN accounts :
                       accounts[i].pda_seeds # <<>> /\ HasUnresolvedSeed(accounts, i)}
    IN  /\ (DerivePassDone /\ rc.pc = "mutate") =>
              \A i \in skipped :
                  rc.pubkey_by_name[accounts[i].name]
                      = rc.direct.pubkey_by_name[accounts[i].name]
        /\ AccountsBuilt =>
              \A i \in skipped :
                  rc.case.mutation # MutWrongPda(accounts[i].name) =>
                      rc.metas[i].pubkey = rc.direct.pubkey_by_name[accounts[i].name]

\* C23: build_accounts returns no error, for any instruction and mutation: a
\* run_case that got past the funding of the payer returns no error other than
\* the encoder's or the sandbox's.  It returns one account reference per
\* AccountSpec in declaration order, each with the signer and writable flag of
\* its AccountSpec, the WrongPda target and the accounts whose derivation was
\* skipped included.
C23_OneReferencePerAccountFlagsKept ==
    LET accounts == rc.case.instruction.accounts
    IN  /\ AccountsBuilt =>
              /\ Len(rc.metas) = Len(accounts)
              /\ \A i \in DOMAIN accounts :
                    /\ rc.metas[i].is_signer = accounts[i].signer
                    /\ rc.metas[i].is_writable = accounts[i].writable
        /\ (DirectPassDone /\ rc.pc = "returned" /\ rc.status = "err") =>
              /\ AccountsBuilt
              /\ LET encoded == encode_instruction_data(rc.case.instruction)
                 IN  IF encoded.ok THEN rc.error = "transaction failed"
                     ELSE rc.error = encoded.err

\* a WrongPda case whose target is a read-only signer and whose other account,
\* writable and not a signer, refers to an account the instruction does not have
C23_Witness ==
    /\ AccountsBuilt
    /\ rc.case.mutation = MutWrongPda("acc2")
    /\ rc.case.instruction.accounts[1].pda_seeds = <<Const("vault"), AccountSeed("acc3")>>
    /\ rc.metas[1].pubkey = rc.direct.pubkey_by_name["acc1"]
    /\ ~rc.metas[1].is_signer /\ ~rc.metas[1].is_writable
    /\ rc.metas[2].is_signer /\ ~rc.metas[2].is_writable

\* C26: every signing identity build_accounts returns has its address as the
\* key of a signer-flagged account reference of the same call, and the keys the
\* transaction is signed with (the payer's and the extra signers') are the
\* signer keys of its message, so that signing never fails.
C26_SignersMatchSignerKeys ==
    AccountsBuilt =>
        /\ \A k \in DOMAIN rc.extra_signers :
              \E i \in DOMAIN rc.metas :
                  rc.metas[i].is_signer /\ rc.metas[i].pubkey = rc.extra_signers[k].pubkey
        /\ {rc.payer.pubkey} \cup {rc.extra_signers[k].pubkey : k \in DOMAIN rc.extra_signers}
               = RequiredSigners(rc.payer, [accounts |-> rc.metas])
        /\ rc.pc # "panicked"

(***************************************************************************)
(* SpecLoad: one call of parse_instruction, of resolve_so_file or of       *)
(* load_program_specs, on what a project directory can hold.               *)
(***************************************************************************)
DiscJson == [i \in DOMAIN Disc2 |-> [u64 |-> Disc2[i]]]

\* the arrays an entry can have as its "discriminator"
DiscArrays ==
    {DiscJson, <<>>, SubSeq(DiscJson, 1, 7), Append(DiscJson, [u64 |-> 9]),
     Append(DiscJson, [other |-> "1.5"]), <<[other |-> "-1"]>> \o DiscJson,
     [DiscJson EXCEPT ![1] = [u64 |-> 256]], [DiscJson EXCEPT ![8] = [u64 |-> 300]]}
    \cup {[DiscJson EXCEPT ![k] = [other |-> "x"]] : k \in {1, 8}}

AccountsJsons ==
    {<<>>, << <<>> >>, IxJson(Deposit).accounts, IxJson(Initialize).accounts,
     << <<[name |-> <<>>, signer |-> <<>>, writable |-> <<TRUE>>,
           seeds |-> << <<[kind |-> <<"const">>, value |-> <<>>, path |-> <<>>],
                         [kind |-> <<"arg">>, value |-> <<>>, path |-> <<"amount">>],
                         [kind |-> <<>>, value |-> <<>>, path |-> <<>>],
                         [kind |-> <<"account">>, value |-> <<>>, path |-> <<>>],
                         [kind |-> <<"account">>, value |-> <<>>, path |-> <<"user">>],
                         [kind |-> <<"const">>,
                          value |-> << <<[byte |-> "v"], [other |-> "x"], [byte |-> "a"]>> >>,
                          path |-> <<>>]>> >>]>> >>}

ArgsJsons ==
    {<<>>, IxJson(Deposit).args,
     << <<[name |-> <<>>, type |-> [defined |-> "Settings"]]>> >>}

IxEntries ==
    {[name |-> n, discriminator |-> d, accounts |-> a, args |-> g] :
        n \in {<<>>, <<"deposit">>},
        d \in {<<>>} \cup {<<array>> : array \in DiscArrays},
        a \in AccountsJsons, g \in ArgsJsons}

StemSamples == {<<"p", "1">>, <<"m", "y", "-", "p">>, <<"v">>}
MetaSamples == {<<>>, <<"m", "y", "_", "p">>, <<"a", "-", "b">>, <<"p", "1">>}

\* what target/deploy can hold, in the order read_dir lists it
DeployPool ==
    <<SoFile(<<"p", "1">>), SoFile(<<"m", "y", "_", "p">>), SoFile(<<"a", "_", "b">>),
      SoFile(<<"o", "t", "h", "e", "r">>), SoFile(<<"m", "y", "-", "p">>),
      [stem |-> <<"p", "1", "-", "k", "e", "y", "p", "a", "i", "r">>, ext |-> <<"json">>,
       content |-> [kind |-> "binary"]]>>

DeployListings ==
    {SelectSeq(DeployPool, LAMBDA f : f \in chosen) : chosen \in SUBSET Range(DeployPool)}

\* an entry whose discriminator has 7 bytes: parse_instruction omits it
ShortEntry == [IxJson(Transfer) EXCEPT !.discriminator = <<SubSeq(DiscJson, 1, 7)>>]

\* what target/idl can hold
IdlFileSamples ==
    {IdlFile(1, ProgramSpec(1, <<Deposit>>)),
     JsonFile(<<"p", "2">>, IdlJson(<<"Prog2">>, <<>>,
                                    <<<<IxJson(Initialize), ShortEntry, IxJson(Transfer)>>>>)),
     JsonFile(<<"m", "y", "-", "p">>, IdlJson(<<"Prog3">>, << <<"a", "-", "b">> >>,
                                              <<<<IxJson(Configure)>>>>)),
     JsonFile(<<"p", "3">>, IdlJson(<<"Prog3">>, <<>>, <<<<ShortEntry>>>>)),
     JsonFile(<<"p", "3">>, IdlJson(<<"Prog3">>, <<>>, <<>>)),
     JsonFile(<<"p", "1">>, IdlJson(<<>>, <<>>, <<<<IxJson(Deposit)>>>>)),
     JsonFile(<<"p", "2">>, IdlJson(<<"not an address">>, <<>>, <<<<IxJson(Deposit)>>>>)),
     JsonFile(<<"p", "2">>, [IdlJson(<<>>, <<>>, <<<<IxJson(Crank)>>>>)
                                EXCEPT !.metadata_address = <<"Prog2">>]),
     [stem |-> <<"p", "4">>, ext |-> <<"json">>, content |-> [kind |-> "invalid"]],
     [stem |-> <<"p", "4">>, ext |-> <<"json">>, content |-> [kind |-> "unreadable"]],
     [stem |-> <<"R", "E", "A", "D", "M", "E">>, ext |-> <<"md">>, content |-> [kind |-> "invalid"]],
     [stem |-> <<"t", "y", "p", "e", "s">>, ext |-> <<>>, content |-> [kind |-> "unreadable"]]}

DistinctFiles(entries) ==
    \A i, j \in DOMAIN entries : i # j => FileName(entries[i]) # FileName(entries[j])

IdlListings == {l \in SeqsUpTo(IdlFileSamples, MaxFiles) : DistinctFiles(l)}

LoadDeployDirs ==
    {Directory(l) : l \in {<<>>, <<DeployPool[1]>>, <<DeployPool[4]>>,
                           <<DeployPool[1], DeployPool[4]>>,
                           <<DeployPool[1], DeployPool[3], DeployPool[4], DeployPool[6]>>,
                           <<SoFile(<<"p", "1">>), SoFile(<<"p", "2">>), SoFile(<<"p", "3">>)>>}}
    \cup {[readable |-> FALSE, entries |-> <<>>]}

LoadInit ==
    /\ ld \in {[pc |-> "parse", ix |-> e] : e \in IxEntries}
              \cup {[pc |-> "resolve", files |-> l, stem |-> st, meta_name |-> m] :
                       l \in DeployListings, st \in StemSamples, m \in MetaSamples}
              \cup {[pc |-> "load", idl_dir |-> Directory(l), deploy_dir |-> d] :
                       l \in IdlListings, d \in LoadDeployDirs}
              \cup {[pc |-> "load", idl_dir |-> [readable |-> FALSE, entries |-> <<>>],
                     deploy_dir |-> Directory(<<>>)]}
    /\ IdleRun /\ enc = IdleEnc /\ rc = IdleRc /\ ledger = IdleLedger

LoadParse ==
    /\ ld.pc = "parse"
    /\ ld' = [pc |-> "parse_done", ix |-> ld.ix, out |-> parse_instruction(ld.ix)]
    /\ UNCHANGED <<runVars, enc, rc, ledger>>

\* the listing load_program_specs collects, then resolve_so_file
LoadResolve ==
    /\ ld.pc = "resolve"
    /\ LET so_files == SelectSeq(ld.files, LAMBDA f : f.ext = <<"so">>)
           sos == [i \in DOMAIN so_files |-> Join("target/deploy", FileName(so_files[i]))]
           files == {FileName(ld.files[i]) : i \in DOMAIN ld.files}
       IN  ld' = [pc |-> "resolve_done", files |-> ld.files, stem |-> ld.stem,
                  meta_name |-> ld.meta_name,
                  out |-> resolve_so_file("target/deploy", files, sos, ld.stem, ld.meta_name)]
    /\ UNCHANGED <<runVars, enc, rc, ledger>>

LoadDir ==
    /\ ld.pc = "load"
    /\ ld' = [pc |-> "load_done", idl_dir |-> ld.idl_dir, deploy_dir |-> ld.deploy_dir,
              out |-> load_program_specs(ld.idl_dir, ld.deploy_dir)]
    /\ UNCHANGED <<runVars, enc, rc, ledger>>

LoadNext == LoadParse \/ LoadResolve \/ LoadDir

SpecLoad == LoadInit /\ [][LoadNext]_vars

(***************************************************************************)
(* Claims about the IDL loader, under SpecLoad.                            *)
(***************************************************************************)
\* a description file that parses as JSON and yields no instruction
NoInstructionFile(f) ==
    /\ f.ext = <<"json">>
    /\ f.content.kind = "json"
    /\ IF f.content.idl.instructions = <<>> THEN TRUE
       ELSE ParseInstructions(f.content.idl.instructions[1], 1) = <<>>

\* C13: a description file from which no instruction parses never makes
\* load_program_specs fail, whether or not an artifact resolves for it: the
\* result is the one the other files alone give; and every ProgramSpec returned
\* has a non-empty instruction list.
C13_NoInstructionFileNeverFails ==
    ld.pc = "load_done" =>
        LET rest == SelectSeq(ld.idl_dir.entries, LAMBDA f : ~NoInstructionFile(f))
        IN  /\ ld.out = load_program_specs([ld.idl_dir EXCEPT !.entries = rest], ld.deploy_dir)
            /\ ld.out.ok => \A k \in DOMAIN ld.out.val : ld.out.val[k].instructions # <<>>

\* the replacement of every '-' by '_'
WithUnderscores(chars) ==
    [i \in DOMAIN chars |-> IF chars[i] = "-" THEN "_" ELSE chars[i]]

\* C14: resolve_so_file returns <deploy_dir>/<stem, '-' as '_'>.so if it exists,
\* else <deploy_dir>/<metadata name, '-' as '_'>.so if it exists, else the only
\* .so of the directory when there is exactly one; otherwise it fails with the
\* error naming the directory and both names; what it returns is always a file
\* of the directory.
C14_ResolvesByNameThenSingleArtifact ==
    ld.pc = "resolve_done" =>
        LET names == {FileName(f) : f \in Range(ld.files)}
            artifacts == {FileName(f) : f \in {g \in Range(ld.files) : g.ext = <<"so">>}}
            byStem == Str(WithUnderscores(ld.stem)) \o ".so"
            byMeta == Str(WithUnderscores(ld.meta_name)) \o ".so"
        IN  /\ IF byStem \in names THEN ld.out = Ok("target/deploy/" \o byStem)
               ELSE IF byMeta \in names THEN ld.out = Ok("target/deploy/" \o byMeta)
               ELSE IF Cardinality(artifacts) = 1
               THEN \E a \in artifacts : ld.out = Ok("target/deploy/" \o a)
               ELSE ld.out = Err("Could not resolve matching .so in target/deploy for idl stem="
                                 \o Str(ld.stem) \o " meta_name=" \o Str(ld.meta_name))
            /\ ld.out.ok => \E n \in names : ld.out.val = "target/deploy/" \o n

C14_Witness ==
    /\ ld.pc = "resolve_done"
    /\ ld.stem = <<"m", "y", "-", "p">> /\ ld.meta_name = <<"a", "-", "b">>
    /\ ld.files = <<SoFile(<<"a", "_", "b">>), SoFile(<<"o", "t", "h", "e", "r">>),
                    SoFile(<<"m", "y", "-", "p">>)>>
    /\ ld.out = Ok("target/deploy/a_b.so")

\* an array of exactly 8 integers in 0..255
IsByteArray(array) ==
    /\ Len(array) = 8
    /\ \A i \in DOMAIN array : "u64" \in DOMAIN array[i] /\ array[i].u64 \in 0..255

\* C15: parse_instruction yields an InstructionSpec exactly for an entry with a
\* string name and a discriminator that is an array of exactly 8 integers in
\* 0..255, and the spec's discriminator is that array unchanged; an entry whose
\* discriminator has another element count, a non-integer element or an
\* out-of-range element is omitted.
C15_OnlyEightByteArraysParse ==
    ld.pc = "parse_done" =>
        LET wellFormed == /\ ld.ix.name # <<>>
                          /\ ld.ix.discriminator # <<>>
                          /\ IsByteArray(ld.ix.discriminator[1])
        IN  /\ (ld.out # <<>>) <=> wellFormed
            /\ ld.out # <<>> =>
                  /\ Len(ld.out[1].discriminator) = DiscriminatorLen
                  /\ ld.out[1].discriminator =
                         [i \in 1..8 |-> ld.ix.discriminator[1][i].u64]


(***************************************************************************)
(* SpecIds: one call of generate_edge_cases for the instructions of one    *)
(* description file whose instruction and account names resemble the       *)
(* suffixes of the case ids.                                               *)
(***************************************************************************)
IdInstructionNames == {"swap", "swap_wrong_pda_pool", "swap_base", "truncate_data"}
IdAccountNames == {"pool", "pool_base", "base", "wrong_program"}

IdInstructions ==
    {InstructionSpec(n, Disc1, a, <<>>) :
        n \in IdInstructionNames,
        a \in {<<>>} \cup {<<AccountSpec(c, FALSE, TRUE, <<Const("vault")>>)>> :
                              c \in IdAccountNames}}

IdPrograms ==
    {<<ProgramSpec(1, l)>> :
        l \in {q \in SeqsUpTo(IdInstructions, MaxIx) : q # <<>> /\ DistinctNames(q)}}

IdsInit ==
    /\ programs \in IdPrograms
    /\ pc = "loaded"
    /\ oracle = "none" /\ generated = <<>> /\ program_bytes = <<>> /\ cursor = 0
    /\ executed = <<>> /\ submitted = <<>> /\ nextKey = 0
    /\ env = "none" /\ checks = <<>> /\ smoke = <<>> /\ report = <<>> /\ result = <<>>
    /\ enc = IdleEnc /\ rc = IdleRc /\ ld = IdleLd /\ ledger = IdleLedger

IdsNext == Generate

SpecIds == IdsInit /\ [][IdsNext]_vars

\* the (idl_file, instruction name) pairs are pairwise distinct and the account
\* names are distinct within each instruction
DistinctInputNames(ps) ==
    /\ \A k1, k2 \in DOMAIN ps :
          \A j1 \in DOMAIN ps[k1].instructions, j2 \in DOMAIN ps[k2].instructions :
              (<<k1, j1>> # <<k2, j2>>) =>
                  <<ps[k1].idl_file, ps[k1].instructions[j1].name>>
                      # <<ps[k2].idl_file, ps[k2].instructions[j2].name>>
    /\ \A k \in DOMAIN ps : \A j \in DOMAIN ps[k].instructions :
          DistinctNames(ps[k].instructions[j].accounts)

\* C27: the ids of the cases generate_edge_cases returns are pairwise distinct
\* whenever the (idl_file, instruction name) pairs of the input are pairwise
\* distinct and the account names are distinct within each instruction, also
\* for names that contain underscores or the suffixes of the ids.
C27_CaseIdsPairwiseDistinct ==
    (pc = "generated" /\ DistinctInputNames(programs)) =>
        \A i, j \in DOMAIN generated : i # j => generated[i].id # generated[j].id


\* the seeds the description declares for an account entry
DeclaredSeeds(a) == IF a.seeds # <<>> THEN a.seeds[1] ELSE <<>>

\* C29: parse_instruction keeps one SeedSpec per declared seed, in declared
\* order, so that an account declared with a non-empty seed array has a
\* non-empty seed list (it is treated as derived and all its declared seeds
\* enter the derivation), whatever the kinds of the seeds.
C29_OneSeedSpecPerDeclaredSeed ==
    (ld.pc = "parse_done" /\ ld.out # <<>> /\ ld.ix.accounts # <<>>) =>
        \A i \in DOMAIN ld.ix.accounts[1] :
            LET declared == DeclaredSeeds(ld.ix.accounts[1][i])
                kept == ld.out[1].accounts[i].pda_seeds
            IN  /\ Len(kept) = Len(declared)
                /\ \A k \in DOMAIN declared : ParseSeed(declared[k]) = <<kept[k]>>


(***************************************************************************)
(* SpecVault: the sample program test_vault (lib.rs) and one vault         *)
(* account, the one derived for VaultOwner.  Every call is one transaction,*)
(* which changes nothing when it fails.  Lamports and the u64 fields are   *)
(* WordBits bits wide.                                                     *)
(***************************************************************************)
WordBits == 3       \* width of u64 in the model
MaxCalls == 3       \* number of transactions sent to the program
RentLamports == 1   \* what `init` moves from the payer to the new account

Word == 2 ^ WordBits
Amounts == 0..(Word - 1)

Users == {"alice", "bob"}
VaultOwner == "alice"

\* declare_id!(..)
ProgramId == "Fg6PaFpoGXkYsidMpWTK6W2BeZ7FEfcYkg476zPFsLnS"

\* seeds = [b"vault", user.key().as_ref()], bump
VaultAddress(user) == find_program_address(<<"vault", user>>, ProgramId)

\* pub struct Vault { authority, balance, last_update }
Vault(authority, balance, last_update) ==
    [authority |-> authority, balance |-> balance, last_update |-> last_update]

\* the outcome of one instruction on the accounts st = [address, data, lamports]
Rejected(st, error) == [err |-> <<error>>, data |-> st.data, lamports |-> st.lamports]
Done(data, lamports) == [err |-> <<>>, data |-> data, lamports |-> lamports]

\* system_program::transfer of `amount` lamports
system_transfer(lamports, from, to, amount) ==
    [lamports EXCEPT ![from] = @ - amount, ![to] = @ + amount]

\* the account constraints of Deposit and of Withdraw: `vault` is an initialized
\* Vault account at the address derived for `user`
VaultConstraints(st, user) ==
    IF st.data = <<>> THEN <<"AccountNotInitialized">>
    ELSE IF st.address # VaultAddress(user) THEN <<"ConstraintSeeds">>
    ELSE <<>>

\* the account constraints of InitializeVault (init, seeds, bump) and the handler
initialize_vault(st, user, now) ==
    IF st.address # VaultAddress(user) THEN Rejected(st, "ConstraintSeeds")
    ELSE IF st.data # <<>> THEN Rejected(st, "AccountAlreadyInUse")
    ELSE IF st.lamports[user] < RentLamports THEN Rejected(st, "InsufficientLamports")
    ELSE Done(<<Vault(user, 0, now)>>,
              system_transfer(st.lamports, user, "vault", RentLamports))

\* deposit; `wraps` tells whether the build wraps on u64 overflow or panics
deposit(st, user, amount, now, wraps) ==
    IF VaultConstraints(st, user) # <<>> THEN Rejected(st, VaultConstraints(st, user)[1])
    ELSE IF st.lamports[user] < amount THEN Rejected(st, "InsufficientLamports")
    ELSE IF st.data[1].balance + amount >= Word /\ ~wraps
    THEN Rejected(st, "ArithmeticOverflow")
    ELSE Done(<<Vault(st.data[1].authority, (st.data[1].balance + amount) % Word, now)>>,
              system_transfer(st.lamports, user, "vault", amount))

\* a withdraw that pays out whatever the recorded balance is
withdraw_Unchecked(st, user, amount, now, cpi_ok) ==
    IF VaultConstraints(st, user) # <<>> THEN Rejected(st, VaultConstraints(st, user)[1])
    ELSE IF st.data[1].authority # user THEN Rejected(st, "Unauthorized")
    ELSE IF ~cpi_ok \/ st.lamports["vault"] < amount THEN Rejected(st, "TransferFailed")
    ELSE Done(<<Vault(st.data[1].authority, (st.data[1].balance - amount) % Word, now)>>,
              system_transfer(st.lamports, "vault", user, amount))

\* withdraw; `cpi_ok` is the System program's answer to the transfer out of the vault
withdraw(st, user, amount, now, cpi_ok) ==
    IF VaultConstraints(st, user) # <<>> THEN Rejected(st, VaultConstraints(st, user)[1])
    ELSE IF ~(st.data[1].balance >= amount) THEN Rejected(st, "InsufficientFunds")
    ELSE IF ~(st.data[1].authority = user) THEN Rejected(st, "Unauthorized")
    ELSE IF ~cpi_ok \/ st.lamports["vault"] < amount THEN Rejected(st, "TransferFailed")
    ELSE Done(<<Vault(st.data[1].authority, st.data[1].balance - amount, now)>>,
              system_transfer(st.lamports, "vault", user, amount))

\* the vault account does not exist; its owner holds every lamport there is
VaultInit ==
    /\ ledger = [pc |-> "open", address |-> VaultAddress(VaultOwner), data |-> <<>>,
                 lamports |-> [a \in Users \cup {"vault"} |->
                                  IF a = VaultOwner THEN Word - 1 ELSE 0],
                 calls |-> 0, deposited |-> 0, withdrawn |-> 0, last |-> <<>>]
    /\ IdleRun /\ enc = IdleEnc /\ rc = IdleRc /\ ld = IdleLd

\* the ledger after a transaction with one instruction; Clock::get() is the
\* number of the transaction
Committed(op, user, amount, out) ==
    [ledger EXCEPT !.data = out.data, !.lamports = out.lamports,
                   !.calls = @ + 1,
                   !.deposited = IF op = "deposit" /\ out.err = <<>> THEN @ + amount ELSE @,
                   !.withdrawn = IF op = "withdraw" /\ out.err = <<>> THEN @ + amount ELSE @,
                   !.last = <<[op |-> op, user |-> user, amount |-> amount, err |-> out.err]>>]

CallInitializeVault ==
    /\ ledger.pc = "open" /\ ledger.calls < MaxCalls
    /\ \E user \in Users :
          ledger' = Committed("initialize_vault", user, 0,
                              initialize_vault(ledger, user, ledger.calls + 1))
    /\ UNCHANGED <<runVars, enc, rc, ld>>

CallDeposit ==
    /\ ledger.pc = "open" /\ ledger.calls < MaxCalls
    /\ \E user \in Users, amount \in Amounts, wraps \in BOOLEAN :
          ledger' = Committed("deposit", user, amount,
                              deposit(ledger, user, amount, ledger.calls + 1, wraps))
    /\ UNCHANGED <<runVars, enc, rc, ld>>

CallWithdraw ==
    /\ ledger.pc = "open" /\ ledger.calls < MaxCalls
    /\ \E user \in Users, amount \in Amounts, cpi_ok \in BOOLEAN :
          ledger' = Committed("withdraw", user, amount,
                              withdraw(ledger, user, amount, ledger.calls + 1, cpi_ok))
    /\ UNCHANGED <<runVars, enc, rc, ld>>

VaultNext == CallInitializeVault \/ CallDeposit \/ CallWithdraw

SpecVault == VaultInit /\ [][VaultNext]_vars

\* C30: after any sequence of initialize_vault, deposit and withdraw calls on
\* one vault the recorded balance is the sum of the successfully deposited
\* amounts minus the sum of the successfully withdrawn ones and is not negative;
\* a withdraw succeeds only if the balance was at least the amount and the
\* caller is the vault's authority, and a rejected withdraw leaves authority and
\* balance as they were.
C30_VaultBalanceIsDepositsMinusWithdrawals ==
    [][/\ ledger'.data # <<>> =>
              /\ ledger'.data[1].balance = ledger'.deposited - ledger'.withdrawn
              /\ ledger'.data[1].balance >= 0
       /\ ledger'.last[1].op = "withdraw" =>
              IF ledger'.last[1].err = <<>>
              THEN /\ ledger.data # <<>>
                   /\ ledger.data[1].balance >= ledger'.last[1].amount
                   /\ ledger.data[1].authority = ledger'.last[1].user
                   /\ ledger'.data[1].balance
                          = ledger.data[1].balance - ledger'.last[1].amount
              ELSE /\ ledger'.data = ledger.data
                   /\ ledger'.lamports = ledger.lamports
      ]_vars

\* a deposit of 5, then a withdraw of 6, which the vault's lamports would
\* cover, rejected for InsufficientFunds
C30_Witness ==
    /\ ledger.pc = "open" /\ ledger.calls = 3
    /\ ledger.data # <<>>
    /\ ledger.data[1].authority = VaultOwner /\ ledger.data[1].balance = 5
    /\ ledger.deposited = 5 /\ ledger.withdrawn = 0
    /\ ledger.lamports["vault"] = 5 + RentLamports
    /\ ledger.last = <<[op |-> "withdraw", user |-> VaultOwner, amount |-> 6,
                        err |-> <<"InsufficientFunds">>]>>

============================================================================
